---- MODULE Spec2Model ----
(***************************************************************************)
(* Survey-response cleaning pipeline (modules/Data_Preprocessing.py) and   *)
(* the entry points of the analysis engines of BI Storyteller.             *)
(*                                                                         *)
(* Answers are Python str values and are modelled as TLA+ strings, one     *)
(* character at a time: strip, lower, re.sub, re.search, split and join    *)
(* are computed on the characters.  A response is a record; the list the   *)
(* caller passes to clean_and_balance is raw_data, and the lists the       *)
(* stages build hold references (indices) into it, so that a stage which   *)
(* writes into a response dict writes into the caller's object.            *)
(***************************************************************************)
EXTENDS Integers, Sequences, FiniteSets, TLC

VARIABLES pc, cleaning_stats, raw_data, cleaned_data, raw_input, calls,
          quality_score, engine, data, result, now, daily, sentiment_results, call

vars == <<pc, cleaning_stats, raw_data, cleaned_data, raw_input, calls,
          quality_score, engine, data, result, now, daily, sentiment_results, call>>

cleaner_vars == <<pc, cleaning_stats, raw_data, cleaned_data, raw_input, calls,
                  quality_score>>

engine_vars == <<engine, data, result, now, daily, sentiment_results>>

(***************************************************************************)
(* Python str operations                                                   *)
(***************************************************************************)
UpperLetters == "ABCDEFGHIJKLMNOPQRSTUVWXYZ"

LowerLetters == "abcdefghijklmnopqrstuvwxyz"

Digits == "0123456789"

CharAt(s, i) == SubSeq(s, i, i)

CharsOf(s) == {CharAt(s, i) : i \in 1..Len(s)}

LowerOf ==
    [c \in CharsOf(UpperLetters) |->
        CharAt(LowerLetters, CHOOSE i \in 1..26 : CharAt(UpperLetters, i) = c)]

WordChars == CharsOf(UpperLetters) \cup CharsOf(LowerLetters) \cup CharsOf(Digits) \cup {"_"}

IsSpace(c) == c \in {" ", "\t", "\n", "\r"}

IsWordChar(c) == c \in WordChars

LowerChar(c) == IF c \in DOMAIN LowerOf THEN LowerOf[c] ELSE c

RECURSIVE Lower(_)
Lower(s) == IF s = "" THEN "" ELSE LowerChar(Head(s)) \o Lower(Tail(s))

RECURSIVE LStrip(_)
LStrip(s) == IF s # "" /\ IsSpace(Head(s)) THEN LStrip(Tail(s)) ELSE s

RECURSIVE RStrip(_)
RStrip(s) ==
    IF s # "" /\ IsSpace(CharAt(s, Len(s))) THEN RStrip(SubSeq(s, 1, Len(s) - 1)) ELSE s

Strip(s) == RStrip(LStrip(s))

\* re.sub(r'\s+', ' ', s)
RECURSIVE CollapseSpaces(_)
CollapseSpaces(s) ==
    IF s = "" THEN ""
    ELSE IF IsSpace(Head(s)) THEN " " \o CollapseSpaces(LStrip(s))
    ELSE Head(s) \o CollapseSpaces(Tail(s))

\* sub in s
Contains(s, sub) ==
    \E i \in 1..(Len(s) - Len(sub) + 1) : SubSeq(s, i, i + Len(sub) - 1) = sub

\* sep.join(parts)
RECURSIVE Join(_, _)
Join(parts, sep) ==
    IF parts = <<>> THEN ""
    ELSE IF Len(parts) = 1 THEN parts[1]
    ELSE parts[1] \o sep \o Join(Tail(parts), sep)

\* s.split(sep) for a one-character separator
RECURSIVE SplitFrom(_, _, _)
SplitFrom(s, sep, cur) ==
    IF s = "" THEN <<cur>>
    ELSE IF Head(s) = sep THEN <<cur>> \o SplitFrom(Tail(s), sep, "")
    ELSE SplitFrom(Tail(s), sep, cur \o Head(s))

Split(s, sep) == SplitFrom(s, sep, "")

\* position of the first sep in s, 0 when there is none
FirstIndex(s, sep) ==
    IF \E i \in 1..Len(s) : CharAt(s, i) = sep
    THEN CHOOSE i \in 1..Len(s) :
            CharAt(s, i) = sep /\ \A j \in 1..(i - 1) : CharAt(s, j) # sep
    ELSE 0

(***************************************************************************)
(* re.search(r'\b(alt|alt|...)\b', s, re.IGNORECASE).  An alternative is   *)
(* a sequence of lower-case literals; consecutive literals are separated   *)
(* by \s* .  Case is ignored by matching against the lower-cased subject.  *)
(***************************************************************************)
\* the literal lit stands at position i of s
LitAt(s, i, lit) ==
    /\ i >= 1
    /\ i + Len(lit) - 1 <= Len(s)
    /\ SubSeq(s, i, i + Len(lit) - 1) = lit

\* \b before position i (every literal starts with a word character)
BoundaryBefore(s, i) == i = 1 \/ ~IsWordChar(CharAt(s, i - 1))

\* \b after position j (every literal ends with a word character)
BoundaryAfter(s, j) == j = Len(s) \/ ~IsWordChar(CharAt(s, j + 1))

AltMatchesAt(s, i, alt) ==
    IF Len(alt) = 1
    THEN /\ LitAt(s, i, alt[1])
         /\ BoundaryBefore(s, i)
         /\ BoundaryAfter(s, i + Len(alt[1]) - 1)
    ELSE /\ LitAt(s, i, alt[1])
         /\ BoundaryBefore(s, i)
         /\ \E k \in (i + Len(alt[1]))..Len(s) :
               /\ \A m \in (i + Len(alt[1]))..(k - 1) : IsSpace(CharAt(s, m))
               /\ LitAt(s, k, alt[2])
               /\ BoundaryAfter(s, k + Len(alt[2]) - 1)

\* the pattern matches somewhere in the lower-cased subject
SearchLowered(alts, lowered) ==
    \E a \in alts : \E i \in 1..Len(lowered) : AltMatchesAt(lowered, i, a)

Words(ws) == {<<w>> : w \in ws}

(***************************************************************************)
(* Response records                                                        *)
(***************************************************************************)
\* answer_data.get('answer') is None
IsNone(a) == a.isnull

\* `if answer:` on a str-or-None answer
Truthy(a) == ~a.isnull /\ a.answer # ""

\* answer is None or answer == ''
IsMissing(a) == a.isnull \/ a.answer = ""

\* str(answer)
Str(a) == IF a.isnull THEN "None" ELSE a.answer

Range(f) == {f[i] : i \in DOMAIN f}

RECURSIVE Sum(_)
Sum(seq) == IF seq = <<>> THEN 0 ELSE Head(seq) + Sum(Tail(seq))

RECURSIVE Flatten(_)
Flatten(seqs) == IF seqs = <<>> THEN <<>> ELSE Head(seqs) \o Flatten(Tail(seqs))

Min(a, b) == IF a <= b THEN a ELSE b

Max(a, b) == IF a >= b THEN a ELSE b

\* the responses a list of references denotes
Deref(raw, refs) == [k \in DOMAIN refs |-> raw[refs[k]]]

\* sorted(answers.items()): by question id
RECURSIVE SortedAnswers(_)
SortedAnswers(answers) ==
    IF answers = <<>> THEN <<>>
    ELSE LET m == CHOOSE i \in DOMAIN answers :
                     \A j \in DOMAIN answers : answers[i].q_id <= answers[j].q_id
         IN  <<answers[m]>> \o
             SortedAnswers([k \in 1..(Len(answers) - 1) |->
                               IF k < m THEN answers[k] ELSE answers[k + 1]])

(***************************************************************************)
(* Step 1: _remove_duplicates                                              *)
(***************************************************************************)
\* the duplicate-detection pattern of one response
Pattern(response) ==
    LET sorted == SortedAnswers(response.answers)
        given == SelectSeq(sorted, Truthy)
    IN  Join([k \in DOMAIN given |-> Lower(Strip(Str(given[k])))], "|")

RECURSIVE DedupFrom(_, _, _, _)
DedupFrom(raw, refs, seen_patterns, unique_data) ==
    IF refs = <<>> THEN unique_data
    ELSE LET pattern == Pattern(raw[Head(refs)])
         IN  IF pattern \notin seen_patterns
             THEN DedupFrom(raw, Tail(refs), seen_patterns \cup {pattern},
                            Append(unique_data, Head(refs)))
             ELSE DedupFrom(raw, Tail(refs), seen_patterns, unique_data)

_remove_duplicates(raw, refs) == DedupFrom(raw, refs, {}, <<>>)

(***************************************************************************)
(* Step 2: _handle_missing_values                                          *)
(***************************************************************************)
\* question ids in the order the batch first shows them
RECURSIVE FirstSeen(_, _)
FirstSeen(entries, acc) ==
    IF entries = <<>> THEN acc
    ELSE IF \E k \in DOMAIN acc : acc[k] = Head(entries).q_id
         THEN FirstSeen(Tail(entries), acc)
         ELSE FirstSeen(Tail(entries), Append(acc, Head(entries).q_id))

\* question_stats: per question, in first-seen order, the category and type of
\* its first entry and the given answers in the order met (the Counter's keys)
_analyze_missing_patterns(batch) ==
    LET entries == Flatten([k \in DOMAIN batch |-> batch[k].answers])
        qids == FirstSeen(entries, <<>>)
        of(q) == SelectSeq(entries, LAMBDA e : e.q_id = q)
        given(q) == SelectSeq(of(q), LAMBDA e : ~IsMissing(e))
    IN  [k \in DOMAIN qids |->
            [q_id |-> qids[k],
             total |-> Len(of(qids[k])),
             missing |-> Len(of(qids[k])) - Len(given(qids[k])),
             values |-> [j \in DOMAIN given(qids[k]) |-> Str(given(qids[k])[j])],
             category |-> of(qids[k])[1].category,
             question_type |-> of(qids[k])[1].question_type]]

\* Counter.most_common(1)[0][0]: the highest count, the first met among equals
MostCommon(values) ==
    LET count(v) == Cardinality({i \in DOMAIN values : values[i] = v})
        first(v) == CHOOSE i \in DOMAIN values :
                        values[i] = v /\ \A j \in 1..(i - 1) : values[j] # v
        best == CHOOSE i \in DOMAIN values :
                    /\ first(values[i]) = i
                    /\ \A j \in DOMAIN values :
                          \/ count(values[j]) < count(values[i])
                          \/ /\ count(values[j]) = count(values[i])
                             /\ i <= first(values[j])
    IN  values[best]

default_responses(category) ==
    CASE category = "feedback" -> "No specific feedback provided."
      [] category = "experience" -> "Limited experience with this topic."
      [] category = "motivation" -> "Standard considerations apply."
      [] category = "factors" -> "Multiple factors influence this decision."
      [] category = "additional" -> "No additional comments."
      [] OTHER -> "No response provided."

NoValue == [isnull |-> TRUE, answer |-> ""]

Value(s) == [isnull |-> FALSE, answer |-> s]

_impute_missing_value(answer_data, patterns) ==
    LET hits == SelectSeq(patterns, LAMBDA st :
                    /\ st.category = answer_data.category
                    /\ st.question_type = answer_data.question_type
                    /\ st.values # <<>>)
    IN  IF hits = <<>> THEN NoValue
        ELSE IF answer_data.question_type = "MCQ" THEN Value(MostCommon(hits[1].values))
        ELSE IF answer_data.question_type = "Descriptive"
             THEN Value(default_responses(answer_data.category))
        ELSE NoValue

\* the loop body without its test that the answer is None or '': every entry
\* for which a value can be derived is overwritten
ImputeAlways(answer_data, patterns) ==
    LET imputed_value == _impute_missing_value(answer_data, patterns)
    IN  IF Truthy(imputed_value)
        THEN [answer_data EXCEPT !.answer = imputed_value.answer,
                                 !.isnull = FALSE,
                                 !.imputed = TRUE]
        ELSE answer_data

\* one answer entry after the loop body of _handle_missing_values
ImputeEntry(answer_data, patterns) ==
    LET imputed_value == _impute_missing_value(answer_data, patterns)
    IN  IF IsMissing(answer_data) /\ Truthy(imputed_value)
        THEN [answer_data EXCEPT !.answer = imputed_value.answer,
                                 !.isnull = FALSE,
                                 !.imputed = TRUE]
        ELSE answer_data

\* the heap after the step: the responses the list refers to are written in place
_handle_missing_values(raw, refs) ==
    LET patterns == _analyze_missing_patterns(Deref(raw, refs))
    IN  [i \in DOMAIN raw |->
            IF i \in Range(refs)
            THEN [raw[i] EXCEPT !.answers =
                     [k \in DOMAIN raw[i].answers |->
                         ImputeEntry(raw[i].answers[k], patterns)]]
            ELSE raw[i]]

\* how many answer entries differ between two heaps
Changed(before, after) ==
    Sum([i \in DOMAIN before |->
            Cardinality({k \in DOMAIN before[i].answers :
                            before[i].answers[k] # after[i].answers[k]})])

(***************************************************************************)
(* Step 3: _standardize_responses                                          *)
(***************************************************************************)
\* the standardizations dict, in insertion order
standardizations ==
    << [pattern |-> Words({"18", "19", "20", "21", "22", "23", "24", "25"}),
        replacement |-> "18-25"],
       [pattern |-> Words({"26", "27", "28", "29", "30", "31", "32", "33", "34", "35"}),
        replacement |-> "26-35"],
       [pattern |-> Words({"yes", "yeah", "yep", "y"}), replacement |-> "Yes"],
       [pattern |-> Words({"no", "nope", "n"}), replacement |-> "No"],
       [pattern |-> {<<"very", "satisfied">>, <<"excellent">>},
        replacement |-> "Very Satisfied"],
       [pattern |-> Words({"satisfied", "good"}), replacement |-> "Satisfied"],
       [pattern |-> Words({"neutral", "okay", "ok", "average"}), replacement |-> "Neutral"],
       [pattern |-> Words({"dissatisfied", "poor"}), replacement |-> "Dissatisfied"],
       [pattern |-> {<<"very", "dissatisfied">>, <<"terrible">>, <<"awful">>},
        replacement |-> "Very Dissatisfied"] >>

\* the rule loop without its break: the last matching rule wins
LastMatch(answer, lowered) ==
    LET hits == {k \in DOMAIN standardizations :
                    SearchLowered(standardizations[k].pattern, lowered)}
    IN  IF hits = {} THEN answer
        ELSE standardizations[CHOOSE k \in hits : \A j \in hits : k >= j].replacement

\* the answer text after trimming, collapsing and the first matching rule
FirstMatch(answer, lowered) ==
    LET hits == {k \in DOMAIN standardizations :
                    SearchLowered(standardizations[k].pattern, lowered)}
    IN  IF hits = {} THEN answer
        ELSE standardizations[CHOOSE k \in hits : \A j \in hits : k <= j].replacement

StandardizeRules(answer) == FirstMatch(answer, Lower(answer))

StandardizeText(original_answer) == StandardizeRules(CollapseSpaces(Strip(original_answer)))

\* one answer entry after the loop body of _standardize_responses
Standardized(answer_data, answer) ==
    IF answer # answer_data.answer
    THEN [answer_data EXCEPT !.answer = answer, !.standardized = TRUE]
    ELSE answer_data

StandardizeEntry(answer_data) ==
    IF Truthy(answer_data)
    THEN Standardized(answer_data, StandardizeText(answer_data.answer))
    ELSE answer_data

_standardize_responses(raw, refs) ==
    [i \in DOMAIN raw |->
        IF i \in Range(refs)
        THEN [raw[i] EXCEPT !.answers =
                 [k \in DOMAIN raw[i].answers |-> StandardizeEntry(raw[i].answers[k])]]
        ELSE raw[i]]

(***************************************************************************)
(* Step 4: _remove_outliers                                                *)
(***************************************************************************)
\* the rule with the letters of an answer compared as they are written
is_outlier_as_written(response) ==
    LET answers == response.answers
        described == SelectSeq(answers, LAMBDA a :
                         a.question_type = "Descriptive" /\ Truthy(a))
        descriptive_lengths == [k \in DOMAIN described |-> Len(Str(described[k]))]
        given == SelectSeq(answers, Truthy)
        answer_texts == [k \in DOMAIN given |-> Str(given[k])]
    IN  \/ /\ descriptive_lengths # <<>>
           /\ \/ Sum(descriptive_lengths) < 10 * Len(descriptive_lengths)
              \/ Sum(descriptive_lengths) > 500 * Len(descriptive_lengths)
        \/ \E k \in DOMAIN answer_texts :
              /\ Len(answer_texts[k]) > 20
              /\ 10 * Cardinality(CharsOf(answer_texts[k])) < 3 * Len(answer_texts[k])

is_outlier(response) ==
    LET answers == response.answers
        described == SelectSeq(answers, LAMBDA a :
                         a.question_type = "Descriptive" /\ Truthy(a))
        descriptive_lengths == [k \in DOMAIN described |-> Len(Str(described[k]))]
        given == SelectSeq(answers, Truthy)
        answer_texts == [k \in DOMAIN given |-> Lower(Str(given[k]))]
    IN  \/ /\ descriptive_lengths # <<>>
           \* avg_length < 10 or avg_length > 500
           /\ \/ Sum(descriptive_lengths) < 10 * Len(descriptive_lengths)
              \/ Sum(descriptive_lengths) > 500 * Len(descriptive_lengths)
        \* len(text) > 20 and len(set(text)) / len(text) < 0.3
        \/ \E k \in DOMAIN answer_texts :
              /\ Len(answer_texts[k]) > 20
              /\ 10 * Cardinality(CharsOf(answer_texts[k])) < 3 * Len(answer_texts[k])

_remove_outliers(raw, refs) == SelectSeq(refs, LAMBDA i : ~is_outlier(raw[i]))

(***************************************************************************)
(* Step 5: _balance_data                                                   *)
(***************************************************************************)
\* the demographic type _analyze_demographics reads off a question text
demo_type(question) ==
    LET of(q) == IF Contains(q, "age") THEN "age"
                 ELSE IF Contains(q, "gender") THEN "gender"
                 ELSE IF Contains(q, "income") THEN "income"
                 ELSE IF Contains(q, "education") THEN "education"
                 ELSE "other"
    IN  of(Lower(question))

\* the demographic entries among entries, each as its demo_type and str(answer)
Demographic(entries) ==
    LET demographic == SelectSeq(entries, LAMBDA a : a.category = "demographic")
    IN  [k \in DOMAIN demographic |->
            [demo_type |-> demo_type(demographic[k].question),
             answer |-> Str(demographic[k])]]

\* one Counter per demo_type, here the sequence of the answers counted
Counters(typed) ==
    [t \in {typed[k].demo_type : k \in DOMAIN typed} |->
        LET of == SelectSeq(typed, LAMBDA a : a.demo_type = t)
        IN  [k \in DOMAIN of |-> of[k].answer]]

_analyze_demographics(batch) ==
    Counters(Demographic(Flatten([k \in DOMAIN batch |-> batch[k].answers])))

MinTargetPerCategory == 20

_calculate_target_sizes(demographics) ==
    [t \in DOMAIN demographics |->
        LET distribution == demographics[t]
            total == Len(distribution)
            num_categories == Cardinality(Range(distribution))
            target_per_category ==
                Max(MinTargetPerCategory, total \div (num_categories * 2))
        IN  [category \in Range(distribution) |->
                Min(target_per_category,
                    Cardinality({k \in DOMAIN distribution :
                                    distribution[k] = category}))]]

\* demo_info of one response: the last age, gender and income answer it carries
LastOf(typed) ==
    [t \in {typed[k].demo_type : k \in DOMAIN typed} \cap {"age", "gender", "income"} |->
        LET of == SelectSeq(typed, LAMBDA a : a.demo_type = t)
        IN  of[Len(of)].answer]

DemoInfo(response) == LastOf(Demographic(response.answers))

\* '|'.join(f"{k}:{v}" for k, v in sorted(demo_info.items()))
KeyOf(demo_info) ==
    LET keys == SelectSeq(<<"age", "gender", "income">>,
                          LAMBDA k : k \in DOMAIN demo_info)
    IN  Join([j \in DOMAIN keys |-> keys[j] \o ":" \o demo_info[keys[j]]], "|")

DemoKey(response) == KeyOf(DemoInfo(response))

\* the group keys in the order the batch first shows them
RECURSIVE KeysFrom(_, _)
KeysFrom(demo_keys, acc) ==
    IF demo_keys = <<>> THEN acc
    ELSE KeysFrom(Tail(demo_keys),
                  IF \E k \in DOMAIN acc : acc[k] = Head(demo_keys)
                  THEN acc ELSE Append(acc, Head(demo_keys)))

\* groups: per key, in first-seen order, the references of its responses
GroupsOf(refs, demo_keys) ==
    LET keys == KeysFrom(demo_keys, <<>>)
    IN  [g \in DOMAIN keys |->
            [demo_key |-> keys[g],
             group_data |->
                LET at == SelectSeq([k \in DOMAIN refs |-> k],
                                    LAMBDA k : demo_keys[k] = keys[g])
                IN  [j \in DOMAIN at |-> refs[at[j]]]]]

_group_by_demographics(raw, refs) ==
    GroupsOf(refs, [k \in DOMAIN refs |-> DemoKey(raw[refs[k]])])

\* key, value = pair.split(':', 1)
KeyValue(pair) ==
    LET at(c) == [key |-> SubSeq(pair, 1, c - 1),
                  value |-> SubSeq(pair, c + 1, Len(pair))]
    IN  at(FirstIndex(pair, ":"))

\* the (key, value) pairs _parse_demo_key reads, in order
ParsedPairs(demo_key) ==
    IF demo_key = "" THEN <<>>
    ELSE LET of(pairs) == [k \in DOMAIN pairs |-> KeyValue(pairs[k])]
         IN  of(SelectSeq(Split(demo_key, "|"), LAMBDA p : Contains(p, ":")))

\* a later pair with the same key overwrites an earlier one
_parse_demo_key(demo_key) ==
    LET of(pairs) ==
            [key \in {pairs[k].key : k \in DOMAIN pairs} |->
                pairs[CHOOSE k \in DOMAIN pairs :
                         /\ pairs[k].key = key
                         /\ \A j \in DOMAIN pairs : pairs[j].key = key => j <= k].value]
    IN  of(ParsedPairs(demo_key))

\* the sample size _sample_for_balance settles on for one group
SampleSize(group, targets) ==
    LET of(demo_info) ==
            LET bounds == {targets[t][demo_info[t]] :
                              t \in {u \in DOMAIN demo_info :
                                        /\ u \in DOMAIN targets
                                        /\ demo_info[u] \in DOMAIN targets[u]}}
            IN  IF bounds = {} THEN Len(group.group_data)
                ELSE Min(Len(group.group_data),
                         CHOOSE b \in bounds : \A c \in bounds : b <= c)
    IN  of(_parse_demo_key(group.demo_key))

\* the groups with the sample size of each
BalancePlan(raw, refs) ==
    LET plan(groups, targets) ==
            [g \in DOMAIN groups |->
                [demo_key |-> groups[g].demo_key,
                 group_data |-> groups[g].group_data,
                 sample_size |-> SampleSize(groups[g], targets)]]
    IN  plan(_group_by_demographics(raw, refs),
             _calculate_target_sizes(_analyze_demographics(Deref(raw, refs))))

\* groups larger than this are sampled in the order of the list
MaxShuffled == 2

\* the subsequences of seq with k members
RECURSIVE SubSeqsOf(_, _)
SubSeqsOf(seq, k) ==
    IF k = 0 THEN {<<>>}
    ELSE IF Len(seq) < k THEN {}
    ELSE {<<Head(seq)>> \o t : t \in SubSeqsOf(Tail(seq), k - 1)}
         \cup SubSeqsOf(Tail(seq), k)

\* random.sample(population, k): every choice of k members, in every order
Samples(population, k) ==
    IF Len(population) <= MaxShuffled
    THEN {s \in [1..k -> Range(population)] : \A a, b \in 1..k : a # b => s[a] # s[b]}
    ELSE SubSeqsOf(population, k)

\* balanced_groups: the groups of which fewer than all members are taken
Undersampled(plan) ==
    Cardinality({g \in DOMAIN plan :
                    /\ plan[g].sample_size > 0
                    /\ plan[g].sample_size < Len(plan[g].group_data)})

(***************************************************************************)
(* Step 6: _validate_data_quality                                          *)
(***************************************************************************)
answer_score(a) ==
    (IF Truthy(a) THEN 40 ELSE 0)
    + (IF a.question_type = "Descriptive"
       THEN (IF 20 <= Len(Str(a)) /\ Len(Str(a)) <= 200 THEN 30 ELSE 0)
       ELSE IF a.question_type = "MCQ"
       THEN (IF Strip(Str(a)) # "" THEN 30 ELSE 0)
       ELSE 0)
    + (IF ~a.imputed THEN 20 ELSE 0)
    + (IF a.standardized THEN 10 ELSE 0)

\* the score as the fraction total_score / total_questions; 0 / 1 stands for 0.0
_validate_data_quality(batch) ==
    LET entries == Flatten([k \in DOMAIN batch |-> batch[k].answers])
    IN  IF batch = <<>> \/ entries = <<>> THEN <<0, 1>>
        ELSE <<Sum([k \in DOMAIN entries |-> answer_score(entries[k])]), Len(entries)>>

(***************************************************************************)
(* Input batches                                                           *)
(***************************************************************************)
\* an answer entry as data generation or form submission builds it
Entry(q_id, question, question_type, category, v) ==
    [q_id |-> q_id, question |-> question, answer |-> v.answer, isnull |-> v.isnull,
     question_type |-> question_type, category |-> category,
     imputed |-> FALSE, standardized |-> FALSE]

Age(v) == Entry(1, "What is your age?", "MCQ", "demographic", v)

Satisfaction(v) == Entry(2, "How satisfied are you?", "MCQ", "satisfaction", v)

Feedback(v) == Entry(3, "Any feedback for us?", "Descriptive", "feedback", v)

Choice(v) == Entry(4, "Pick one option", "MCQ", "general", v)

Response(id, timestamp, answers) ==
    [response_id |-> id, timestamp |-> timestamp, answers |-> answers]

\* the responses the small batches are built from
Responses ==
    { Response("R1", "2024-03-01T10:00:00", <<Age(Value("22")), Satisfaction(Value("yes"))>>),
      Response("R2", "2024-03-02T11:30:00", <<Age(Value("22")), Satisfaction(Value("yeah"))>>),
      Response("R3", "2024-03-02T12:00:00", <<Age(Value("40")), Satisfaction(NoValue)>>),
      Response("R4", "not a date",
               <<Satisfaction(Value("terrible")), Feedback(Value("It works  well"))>>),
      Response("R5", "2024-03-03T09:15:00",
               <<Satisfaction(Value("Satisfied")), Feedback(NoValue)>>),
      Response("R6", "2024-03-03T18:45:00", <<Feedback(Value("Too slow"))>>),
      Response("R7", "", <<Satisfaction(Value(""))>>) }

\* records per small batch
MaxRecords == 2

RECURSIVE SeqsUpTo(_, _)
SeqsUpTo(S, n) ==
    IF n = 0 THEN {<<>>}
    ELSE LET shorter == SeqsUpTo(S, n - 1)
         IN  shorter \cup {Append(b, r) : b \in {c \in shorter : Len(c) = n - 1}, r \in S}

SmallBatches == SeqsUpTo(Responses, MaxRecords)

\* one more response than the least per-category target, all of one age answer,
\* no two with the same answers
LargeSize == MinTargetPerCategory + 1

LargeBatchOf(v) ==
    [i \in 1..LargeSize |->
        Response("L" \o CharAt(LowerLetters, i), "2024-03-04T08:00:00",
                 <<Age(v),
                   Satisfaction(Value(IF i % 2 = 0 THEN "Satisfied" ELSE "Neutral")),
                   Choice(Value("opt" \o CharAt(LowerLetters, i)))>>)]

LargeBatch(age) == LargeBatchOf(Value(age))

\* the same responses with the age question left unanswered
UnansweredBatch == LargeBatchOf(NoValue)

LargeBatches == {LargeBatch("36-45"), LargeBatch("36-45|retired"), UnansweredBatch}

\* answers of more than 20 characters: few distinct letters in both cases
\* of each, few distinct letters, and ordinary words
LongAnswers ==
    {Feedback(Value("AaAaAaBbBbBbCcCcCcDdDd")),
     Choice(Value("abcabcabcabcabcabcabcabc")),
     Feedback(Value("Quick and easy to use today"))}

\* one response with one long answer each
LongAnswerBatches ==
    {<<Response("J1", "2024-03-06T10:00:00", <<answer_data>>)>> : answer_data \in LongAnswers}

\* two responses of different people, neither with a non-empty answer
BlankBatch ==
    <<Response("B1", "2024-03-07T09:00:00", <<Satisfaction(Value(""))>>),
      Response("B2", "2024-03-07T09:30:00", <<Feedback(NoValue)>>)>>

Remark(v) == Entry(6, "Anything else to tell us?", "Descriptive", "feedback", v)

\* one response with a text left out beside a text given
RemarkBatch ==
    <<Response("K1", "2024-03-10T10:00:00",
               <<Feedback(NoValue), Remark(Value("The checkout was quick and simple"))>>)>>

Batches ==
    SmallBatches \cup LargeBatches \cup LongAnswerBatches \cup {BlankBatch, RemarkBatch}

(***************************************************************************)
(* The cleaner: DataCleaner.__init__ and clean_and_balance, one action per *)
(* statement of its body                                                   *)
(***************************************************************************)
\* calls of clean_and_balance on one cleaner
MaxCalls == 2

NoStats ==
    [original_count |-> 0, removed_duplicates |-> 0, fixed_missing_values |-> 0,
     standardized_responses |-> 0, removed_outliers |-> 0, balanced_groups |-> 0]

NoResult == [raised |-> FALSE, keys |-> {}, scenarios |-> <<>>, models |-> {}]

\* the dates datetime.now() can fall on: a day some response was given on,
\* and a later day
Clock == {"2024-03-03", "2024-11-05"}

\* no per-day bucket has been filled
NoBuckets == [d \in {} |-> 0]

\* no function has been called on its own
NoCall == [fn |-> "none", args |-> <<>>, done |-> FALSE, ret |-> <<>>]

\* a cleaner has been constructed and no engine has been called
Constructed ==
    /\ pc = "idle"
    /\ cleaning_stats = NoStats
    /\ raw_data = <<>>
    /\ cleaned_data = <<>>
    /\ raw_input = <<>>
    /\ calls = 0
    /\ quality_score = <<0, 1>>
    /\ engine = "none"
    /\ data = <<>>
    /\ result = NoResult
    /\ now = "2024-03-03"
    /\ daily = NoBuckets
    /\ sentiment_results = <<>>

Init == Constructed /\ call = NoCall

Becomes(f) ==
    /\ raw_data' = f.raw
    /\ cleaned_data' = f.refs
    /\ cleaning_stats' = f.stats

\* the frame on entry: the caller's list is bound and original_count is written
Entered(batch, stats) ==
    [raw |-> batch,
     refs |-> [i \in 1..Len(batch) |-> i],
     stats |-> [stats EXCEPT !.original_count = Len(batch)]]

clean_and_balance ==
    /\ pc = "idle"
    /\ calls < MaxCalls
    /\ \E batch \in Batches :
          /\ Becomes(Entered(batch, cleaning_stats))
          /\ raw_input' = batch
    /\ calls' = calls + 1
    /\ pc' = "remove_duplicates"
    /\ UNCHANGED <<quality_score, engine_vars, call>>

\* the locals and the counters one statement of the body works on
Frame == [raw |-> raw_data, refs |-> cleaned_data, stats |-> cleaning_stats]

AfterRemoveDuplicates(f) ==
    LET unique_data == _remove_duplicates(f.raw, f.refs)
    IN  [f EXCEPT !.refs = unique_data,
                  !.stats.removed_duplicates = @ + (Len(f.refs) - Len(unique_data))]

AfterHandleMissingValues(f) ==
    LET after == _handle_missing_values(f.raw, f.refs)
    IN  [f EXCEPT !.raw = after,
                  !.stats.fixed_missing_values = @ + Changed(f.raw, after)]

AfterStandardizeResponses(f) ==
    LET after == _standardize_responses(f.raw, f.refs)
    IN  [f EXCEPT !.raw = after,
                  !.stats.standardized_responses = @ + Changed(f.raw, after)]

AfterRemoveOutliers(f) ==
    LET outliers_removed == _remove_outliers(f.raw, f.refs)
    IN  [f EXCEPT !.refs = outliers_removed,
                  !.stats.removed_outliers = @ + (Len(f.refs) - Len(outliers_removed))]

\* every list _sample_for_balance can build: per group, in order, one sample
RECURSIVE Balanced(_)
Balanced(plan) ==
    IF plan = <<>> THEN {<<>>}
    ELSE LET group == Head(plan)
             sampled == IF group.sample_size > 0
                        THEN Samples(group.group_data, group.sample_size)
                        ELSE {<<>>}
         IN  {s \o rest : s \in sampled, rest \in Balanced(Tail(plan))}

\* the frames _balance_data can leave
AfterBalanceData(f) ==
    LET of(plan) == {[f EXCEPT !.refs = balanced_data,
                              !.stats.balanced_groups = @ + Undersampled(plan)] :
                        balanced_data \in Balanced(plan)}
    IN  of(BalancePlan(f.raw, f.refs))

RemoveDuplicates ==
    /\ pc = "remove_duplicates"
    /\ Becomes(AfterRemoveDuplicates(Frame))
    /\ pc' = "handle_missing_values"
    /\ UNCHANGED <<raw_input, calls, quality_score, engine_vars, call>>

HandleMissingValues ==
    /\ pc = "handle_missing_values"
    /\ Becomes(AfterHandleMissingValues(Frame))
    /\ pc' = "standardize_responses"
    /\ UNCHANGED <<raw_input, calls, quality_score, engine_vars, call>>

StandardizeResponses ==
    /\ pc = "standardize_responses"
    /\ Becomes(AfterStandardizeResponses(Frame))
    /\ pc' = "remove_outliers"
    /\ UNCHANGED <<raw_input, calls, quality_score, engine_vars, call>>

RemoveOutliers ==
    /\ pc = "remove_outliers"
    /\ Becomes(AfterRemoveOutliers(Frame))
    /\ pc' = "balance_data"
    /\ UNCHANGED <<raw_input, calls, quality_score, engine_vars, call>>

BalanceData ==
    /\ pc = "balance_data"
    /\ \E f \in AfterBalanceData(Frame) : Becomes(f)
    /\ pc' = "validate_data_quality"
    /\ UNCHANGED <<raw_input, calls, quality_score, engine_vars, call>>

\* the quality score is computed and the list is returned
ValidateDataQuality ==
    /\ pc = "validate_data_quality"
    /\ quality_score' = _validate_data_quality(Deref(raw_data, cleaned_data))
    /\ pc' = "idle"
    /\ UNCHANGED <<cleaning_stats, raw_data, cleaned_data, raw_input, calls, engine_vars, call>>

Next ==
    \/ clean_and_balance
    \/ RemoveDuplicates
    \/ HandleMissingValues
    \/ StandardizeResponses
    \/ RemoveOutliers
    \/ BalanceData
    \/ ValidateDataQuality

Spec == Init /\ [][Next]_vars

(***************************************************************************)
(* The analysis engines.  A call of an entry point either raises or        *)
(* returns a dict; the model keeps whether it raised, the keys of the dict *)
(* returned, the A/B scenarios tested and the targets modelled.            *)
(***************************************************************************)
Returned(keys) == [NoResult EXCEPT !.keys = keys]

Raised == [NoResult EXCEPT !.raised = TRUE]

AllEntries(batch) == Flatten([k \in DOMAIN batch |-> batch[k].answers])

(***************************************************************************)
(* EDAAnalyzer.perform_eda                                                 *)
(***************************************************************************)
\* per question with a given answer: the answers given, and the type and
\* category of the last entry that gave one
_extract_structured_data(batch) ==
    LET of(given) ==
            [q \in {given[k].q_id : k \in DOMAIN given} |->
                LET entries == SelectSeq(given, LAMBDA e : e.q_id = q)
                IN  [responses |-> [k \in DOMAIN entries |-> entries[k].answer],
                     type |-> entries[Len(entries)].question_type,
                     category |-> entries[Len(entries)].category]]
    IN  of(SelectSeq(AllEntries(batch), Truthy))

\* total == 0 returns 0; otherwise the first count gives p = count / total, a
\* float, and p.bit_length() raises AttributeError
_calculate_entropy(responses) == [raised |-> Len(responses) # 0, entropy |-> 0]

\* raises when the entropy of some MCQ question does
_analyze_categorical_data(structured_data) ==
    [raised |-> \E q \in DOMAIN structured_data :
                    /\ structured_data[q].type = "MCQ"
                    /\ _calculate_entropy(structured_data[q].responses).raised]

EdaKeys ==
    {"summary_statistics", "categorical_analysis", "text_analysis",
     "correlation_analysis", "insights", "visualizations"}

EdaOutcome(batch) ==
    IF _analyze_categorical_data(_extract_structured_data(batch)).raised
    THEN Raised
    ELSE Returned(EdaKeys)

(***************************************************************************)
(* Timestamps: datetime.fromisoformat(s) and strftime('%Y-%m-%d'), on the  *)
(* extended format isoformat() writes: YYYY-MM-DD, optionally followed by  *)
(* one separator character and HH:MM:SS, optionally followed by a UTC      *)
(* offset +HH:MM or -HH:MM.  The fields are read as numbers and checked.   *)
(***************************************************************************)
\* s.replace(old, new) for a one-character old
RECURSIVE Replace(_, _, _)
Replace(s, old, new) ==
    IF s = "" THEN ""
    ELSE (IF Head(s) = old THEN new ELSE Head(s)) \o Replace(Tail(s), old, new)

IsDigits(s) == s # "" /\ \A i \in 1..Len(s) : CharAt(s, i) \in CharsOf(Digits)

DigitValue(c) == (CHOOSE i \in 1..10 : CharAt(Digits, i) = c) - 1

\* int(s) of a string of digits
RECURSIVE ToInt(_)
ToInt(s) ==
    IF s = "" THEN 0
    ELSE 10 * ToInt(SubSeq(s, 1, Len(s) - 1)) + DigitValue(CharAt(s, Len(s)))

\* str(n) of a natural number
RECURSIVE Decimal(_)
Decimal(n) ==
    IF n < 10 THEN CharAt(Digits, n + 1)
    ELSE Decimal(n \div 10) \o CharAt(Digits, (n % 10) + 1)

\* '%02d' % n
Pad2(n) == IF n < 10 THEN "0" \o Decimal(n) ELSE Decimal(n)

IsLeap(year) == (year % 4 = 0 /\ year % 100 # 0) \/ year % 400 = 0

DaysInMonth(year, month) ==
    IF month = 2 THEN (IF IsLeap(year) THEN 29 ELSE 28)
    ELSE IF month \in {4, 6, 9, 11} THEN 30
    ELSE 31

\* two digits and a colon, twice, then two digits, within the given limits
IsClock(s, hours) ==
    /\ Len(s) = 8
    /\ IsDigits(SubSeq(s, 1, 2)) /\ CharAt(s, 3) = ":"
    /\ IsDigits(SubSeq(s, 4, 5)) /\ CharAt(s, 6) = ":"
    /\ IsDigits(SubSeq(s, 7, 8))
    /\ ToInt(SubSeq(s, 1, 2)) < hours
    /\ ToInt(SubSeq(s, 4, 5)) < 60
    /\ ToInt(SubSeq(s, 7, 8)) < 60

\* the offset must be strictly within a day
IsOffset(s) ==
    /\ Len(s) = 6
    /\ CharAt(s, 1) \in {"+", "-"}
    /\ IsDigits(SubSeq(s, 2, 3)) /\ CharAt(s, 4) = ":"
    /\ IsDigits(SubSeq(s, 5, 6))
    /\ 60 * ToInt(SubSeq(s, 2, 3)) + ToInt(SubSeq(s, 5, 6)) < 24 * 60

IsDate(s) ==
    /\ Len(s) = 10
    /\ IsDigits(SubSeq(s, 1, 4)) /\ CharAt(s, 5) = "-"
    /\ IsDigits(SubSeq(s, 6, 7)) /\ CharAt(s, 8) = "-"
    /\ IsDigits(SubSeq(s, 9, 10))
    /\ ToInt(SubSeq(s, 1, 4)) >= 1
    /\ ToInt(SubSeq(s, 6, 7)) \in 1..12
    /\ ToInt(SubSeq(s, 9, 10)) \in
           1..DaysInMonth(ToInt(SubSeq(s, 1, 4)), ToInt(SubSeq(s, 6, 7)))

\* datetime.fromisoformat(s): the date read, and whether ValueError is raised
fromisoformat(s) ==
    IF /\ Len(s) >= 10
       /\ IsDate(SubSeq(s, 1, 10))
       /\ \/ Len(s) = 10
          \/ Len(s) = 19 /\ IsClock(SubSeq(s, 12, 19), 24)
          \/ Len(s) = 25 /\ IsClock(SubSeq(s, 12, 19), 24) /\ IsOffset(SubSeq(s, 20, 25))
    THEN [raised |-> FALSE,
          year |-> ToInt(SubSeq(s, 1, 4)),
          month |-> ToInt(SubSeq(s, 6, 7)),
          day |-> ToInt(SubSeq(s, 9, 10))]
    ELSE [raised |-> TRUE, year |-> 0, month |-> 0, day |-> 0]

\* date_obj.strftime('%Y-%m-%d'); the C library writes %Y without padding
strftime_day(date_obj) ==
    Decimal(date_obj.year) \o "-" \o Pad2(date_obj.month) \o "-" \o Pad2(date_obj.day)

\* datetime.fromisoformat(timestamp.replace('Z', '+00:00'))
ParsedTimestamp(timestamp) == fromisoformat(Replace(timestamp, "Z", "+00:00"))

\* a dict of counts: how many times each key occurs in keys
Tally(keys) ==
    [d \in Range(keys) |-> Cardinality({i \in DOMAIN keys : keys[i] = d})]

(***************************************************************************)
(* SentimentAnalyzer.analyze_sentiment                                     *)
(***************************************************************************)
\* the Descriptive answers with text, each with the position of its response
_extract_text_responses(batch) ==
    LET tagged == Flatten([k \in DOMAIN batch |->
                      [j \in DOMAIN batch[k].answers |->
                          [ref |-> k, entry |-> batch[k].answers[j]]]])
    IN  SelectSeq(tagged, LAMBDA t :
            /\ t.entry.question_type = "Descriptive"
            /\ Truthy(t.entry)
            /\ Strip(t.entry.answer) # "")

\* text_response_count calls .strip() on the answer of every Descriptive entry
\* of the response, and None has no strip
CountRaises(response) ==
    \E k \in DOMAIN response.answers :
        /\ response.answers[k].question_type = "Descriptive"
        /\ IsNone(response.answers[k])

\* the texts of one response, as the matching loop counts them
text_response_count(response) ==
    Cardinality({k \in DOMAIN response.answers :
                    /\ response.answers[k].question_type = "Descriptive"
                    /\ Strip(response.answers[k].answer) # ""})

\* the response the i-th sentiment (from 0) is matched to, 0 when none is
RECURSIVE MatchFrom(_, _, _, _)
MatchFrom(batch, k, response_idx, i) ==
    IF k > Len(batch) THEN 0
    ELSE LET of(count) ==
                 IF response_idx <= i /\ i < response_idx + count THEN k
                 ELSE MatchFrom(batch, k + 1, response_idx + count, i)
         IN  of(text_response_count(batch[k]))

\* the date a sentiment is filed under, "" when it is filed under none: the
\* timestamp is empty, or fromisoformat raises and the except clause passes
SentimentDate(batch, response_data) ==
    IF response_data = 0 THEN ""
    ELSE LET of(timestamp) ==
                 IF timestamp = "" THEN ""
                 ELSE LET dated(date_obj) ==
                              IF date_obj.raised THEN "" ELSE strftime_day(date_obj)
                      IN  dated(ParsedTimestamp(timestamp))
         IN  of(batch[response_data].timestamp)

\* daily_sentiments: per date, the number of scores filed under it
daily_sentiments(batch, texts) ==
    Tally(SelectSeq([i \in DOMAIN texts |->
                        SentimentDate(batch, MatchFrom(batch, 1, 0, i - 1))],
                    LAMBDA date_str : date_str # ""))

\* for each text the responses are counted from the first up to the one that
\* holds the text
_analyze_sentiment_trends(batch, texts) ==
    LET of(raised) ==
            [raised |-> raised,
             daily_sentiment |-> IF raised THEN NoBuckets
                                 ELSE daily_sentiments(batch, texts)]
    IN  of(\E j \in 1..texts[Len(texts)].ref : CountRaises(batch[j]))

\* trends['daily_sentiment'] of the result, empty when there is none
SentimentDaily(batch) ==
    LET of(texts) ==
            IF texts = <<>> THEN NoBuckets
            ELSE _analyze_sentiment_trends(batch, texts).daily_sentiment
    IN  of(_extract_text_responses(batch))

SentimentKeys ==
    {"overall_sentiment", "sentiment_distribution", "sentiment_by_category",
     "sentiment_trends", "emotional_keywords", "sentiment_scores", "insights",
     "visualizations"}

SentimentOutcome(batch) ==
    LET of(texts) ==
            IF texts = <<>> THEN Returned({"error", "distribution"})
            ELSE IF _analyze_sentiment_trends(batch, texts).raised THEN Raised
            ELSE Returned(SentimentKeys)
    IN  of(_extract_text_responses(batch))

(***************************************************************************)
(* SentimentAnalyzer._calculate_response_sentiment.  The intensifiers are  *)
(* kept in tenths, so the sum of the word scores is an integer number of   *)
(* tenths.  Python adds and divides floats: the quotient it computes is    *)
(* the exact one when every term is 1.0 or 1.5 (sums of these are exact    *)
(* and the division rounds to the nearest float), and otherwise may lie a  *)
(* rounding error below or above it.  A score is kept as the exact         *)
(* fraction num/den with the sign err of the rounding error.               *)
(***************************************************************************)
positive_words ==
    {"excellent", "great", "good", "amazing", "fantastic", "wonderful", "perfect",
     "outstanding", "superb", "brilliant", "awesome", "love", "like", "enjoy",
     "satisfied", "happy", "pleased", "delighted", "impressed", "recommend",
     "helpful", "useful", "valuable", "effective", "efficient", "reliable",
     "quality", "professional", "friendly", "quick", "fast", "easy", "smooth",
     "convenient", "affordable", "reasonable", "worth", "benefit", "advantage"}

negative_words ==
    {"terrible", "awful", "bad", "horrible", "disgusting", "hate", "dislike",
     "disappointing", "frustrated", "annoying", "useless", "worthless",
     "dissatisfied", "unhappy", "upset", "angry", "furious", "worst", "poor",
     "slow", "difficult", "hard", "complicated", "confusing", "expensive",
     "overpriced", "unreliable", "broken", "problem", "issue", "bug", "error",
     "fail", "failure", "waste", "regret", "sorry", "complain", "complaint"}

\* in tenths
intensifiers ==
    ("very" :> 15) @@ ("really" :> 14) @@ ("extremely" :> 18) @@
    ("incredibly" :> 17) @@ ("absolutely" :> 16) @@ ("completely" :> 15) @@
    ("totally" :> 14) @@ ("quite" :> 12) @@ ("pretty" :> 11) @@ ("fairly" :> 11) @@
    ("rather" :> 11) @@ ("somewhat" :> 8) @@ ("slightly" :> 7) @@ ("a bit" :> 7) @@
    ("kind of" :> 6) @@ ("sort of" :> 6)

negators ==
    {"not", "no", "never", "nothing", "nobody", "nowhere", "neither", "none",
     "without", "lacking", "missing", "absent", "don't", "won't", "can't",
     "couldn't", "shouldn't", "wouldn't", "isn't", "aren't"}

\* re.findall(r'\b\w+\b', s): the maximal runs of word characters
RECURSIVE FindWords(_, _)
FindWords(s, cur) ==
    IF s = "" THEN (IF cur = "" THEN <<>> ELSE <<cur>>)
    ELSE IF IsWordChar(Head(s)) THEN FindWords(Tail(s), cur \o Head(s))
    ELSE (IF cur = "" THEN <<>> ELSE <<cur>>) \o FindWords(Tail(s), "")

is_negated(words, i) ==
    \/ i > 1 /\ words[i - 1] \in negators
    \/ i > 2 /\ words[i - 2] \in negators

\* 1.0, in tenths, when neither of the two words before is an intensifier
intensifier(words, i) ==
    IF i > 1 /\ words[i - 1] \in DOMAIN intensifiers THEN intensifiers[words[i - 1]]
    ELSE IF i > 2 /\ words[i - 2] \in DOMAIN intensifiers THEN intensifiers[words[i - 2]]
    ELSE 10

\* what words[i] adds to sentiment_score, in tenths
WordScore(words, i) ==
    IF words[i] \in positive_words
    THEN (IF is_negated(words, i) THEN 0 - intensifier(words, i) ELSE intensifier(words, i))
    ELSE IF words[i] \in negative_words
    THEN (IF is_negated(words, i) THEN intensifier(words, i) ELSE 0 - intensifier(words, i))
    ELSE 0

\* some term of the sum is not a float: an intensifier other than 1.0 and 1.5
Inexact(words) ==
    \E i \in DOMAIN words :
        /\ words[i] \in positive_words \cup negative_words
        /\ intensifier(words, i) \notin {10, 15}

\* the value of a score lies above p/q, for q > 0
Above(score, p, q) ==
    \/ score.num * q > p * score.den
    \/ score.num * q = p * score.den /\ score.err > 0

Below(score, p, q) ==
    \/ score.num * q < p * score.den
    \/ score.num * q = p * score.den /\ score.err < 0

\* the thresholds taken inclusively
LabelInclusive(normalized_score) ==
    IF ~Below(normalized_score, 1, 10) THEN "positive"
    ELSE IF ~Above(normalized_score, -1, 10) THEN "negative"
    ELSE "neutral"

\* the label the thresholds give
Label(normalized_score) ==
    IF Above(normalized_score, 1, 10) THEN "positive"
    ELSE IF Below(normalized_score, -1, 10) THEN "negative"
    ELSE "neutral"

\* sentiment_score / word_count, and 0 for a text without words
NormalizedScore(words, rounding) ==
    IF Len(words) > 0
    THEN [num |-> Sum([i \in DOMAIN words |-> WordScore(words, i)]),
          den |-> 10 * Len(words),
          err |-> IF Inexact(words) THEN rounding ELSE 0]
    ELSE [num |-> 0, den |-> 1, err |-> 0]

_calculate_response_sentiment(text, rounding) ==
    LET of(normalized_score) ==
            [score |-> normalized_score, label |-> Label(normalized_score)]
    IN  of(NormalizedScore(FindWords(Lower(text), ""), rounding))

\* the ways the float operations on the texts of a batch can miss the exact
\* result: below, not at all, above
Roundings(batch) ==
    LET of(texts) ==
            IF \E i \in DOMAIN texts :
                   Inexact(FindWords(Lower(texts[i].entry.answer), ""))
            THEN {-1, 0, 1}
            ELSE {0}
    IN  of(_extract_text_responses(batch))

_analyze_text_sentiment(responses, rounding) ==
    [i \in DOMAIN responses |->
        _calculate_response_sentiment(responses[i].entry.answer, rounding)]

\* the sentiment results the call works with: none when no text is found
\* and none when the call raises
SentimentResults(batch, rounding) ==
    LET of(texts) ==
            IF texts = <<>> THEN <<>>
            ELSE IF _analyze_sentiment_trends(batch, texts).raised THEN <<>>
            ELSE _analyze_text_sentiment(texts, rounding)
    IN  of(_extract_text_responses(batch))

(***************************************************************************)
(* TrendAnalyzer.analyze_trends: no statement of it returns early          *)
(***************************************************************************)
TrendKeys ==
    {"temporal_patterns", "satisfaction_trends", "demographic_trends",
     "response_trends", "seasonal_patterns", "trend_predictions", "insights",
     "visualizations"}

TrendOutcome(batch) == Returned(TrendKeys)

\* the day a response is filed under: that of its timestamp, and today's
\* when the timestamp is empty or fromisoformat raises
DayKey(response, today) ==
    IF response.timestamp = "" THEN today
    ELSE LET of(timestamp) == IF timestamp.raised THEN today ELSE strftime_day(timestamp)
         IN  of(ParsedTimestamp(response.timestamp))

\* temporal_data['daily']: per day, the number of responses filed under it
_extract_temporal_data(batch, today) ==
    [daily |-> Tally([k \in DOMAIN batch |-> DayKey(batch[k], today)])]

(***************************************************************************)
(* ABTester.run_ab_test                                                    *)
(***************************************************************************)
min_sample_size == 30

\* the question ids of the MCQ entries of the first response in the categories
FirstRecordVars(batch, categories) ==
    IF batch = <<>> THEN <<>>
    ELSE LET entries == SelectSeq(batch[1].answers, LAMBDA e :
                            e.category \in categories /\ e.question_type = "MCQ")
         IN  [k \in DOMAIN entries |-> entries[k].q_id]

demographic_vars(batch) == FirstRecordVars(batch, {"demographic"})

outcome_vars(batch) == FirstRecordVars(batch, {"satisfaction", "rating"})

\* answers.get(q_id, {}).get('answer'): "" stands for every falsy value
AnswerTo(response, q_id) ==
    LET entries == SelectSeq(response.answers, LAMBDA e : e.q_id = q_id /\ Truthy(e))
    IN  IF entries = <<>> THEN "" ELSE entries[1].answer

_validate_test_scenario(batch, segment_var, outcome_var) ==
    LET of(segment_answers) ==
            Cardinality({v \in Range(segment_answers) :
                            Cardinality({k \in DOMAIN segment_answers :
                                            segment_answers[k] = v})
                                >= min_sample_size}) >= 2
        both == SelectSeq(batch, LAMBDA r :
                    AnswerTo(r, segment_var) # "" /\ AnswerTo(r, outcome_var) # "")
    IN  of([k \in DOMAIN both |-> AnswerTo(both[k], segment_var)])

\* scenario discovery without the random split tests: only the validated
\* pairings of a demographic with an outcome question
NaturalScenariosOnly(batch) ==
    LET of(demos, outcomes) ==
            LET pairs == Flatten([d \in DOMAIN demos |->
                             [o \in DOMAIN outcomes |->
                                 [test_type |-> "demographic_outcome",
                                  segmentation_var |-> demos[d],
                                  outcome_var |-> outcomes[o]]]])
                natural == SelectSeq(pairs, LAMBDA c :
                               _validate_test_scenario(batch, c.segmentation_var,
                                                       c.outcome_var))
            IN  SubSeq(natural, 1, Min(5, Len(natural)))
    IN  of(demographic_vars(batch), outcome_vars(batch))

\* scenarios as (test_type, segmentation question, outcome question); question
\* 0 stands for the random split, which has no segmentation question
_identify_test_scenarios(batch) ==
    LET of(demos, outcomes) ==
            LET pairs == Flatten([d \in DOMAIN demos |->
                             [o \in DOMAIN outcomes |->
                                 [test_type |-> "demographic_outcome",
                                  segmentation_var |-> demos[d],
                                  outcome_var |-> outcomes[o]]]])
                natural == SelectSeq(pairs, LAMBDA c :
                               _validate_test_scenario(batch, c.segmentation_var,
                                                       c.outcome_var))
                scenarios ==
                    IF Len(natural) < 2 /\ Len(outcomes) > 0
                    THEN natural \o [o \in 1..Min(2, Len(outcomes)) |->
                                        [test_type |-> "random_split",
                                         segmentation_var |-> 0,
                                         outcome_var |-> outcomes[o]]]
                    ELSE natural
            IN  SubSeq(scenarios, 1, Min(5, Len(scenarios)))
    IN  of(demographic_vars(batch), outcome_vars(batch))

AbKeys ==
    {"test_setup", "variant_performance", "statistical_analysis",
     "significance_tests", "recommendations", "insights", "test_results"}

AbOutcome(batch) ==
    LET of(test_scenarios) ==
            IF test_scenarios = <<>> THEN Returned({"error", "recommendations"})
            ELSE [Returned(AbKeys) EXCEPT !.scenarios = test_scenarios]
    IN  of(_identify_test_scenarios(batch))

(***************************************************************************)
(* PredictiveAnalyzer.analyze                                              *)
(***************************************************************************)
_encode_categorical_target(answer) ==
    IF answer \in {"Very Satisfied", "Excellent"} THEN 5
    ELSE IF answer \in {"Satisfied", "Good"} THEN 4
    ELSE IF answer \in {"Neutral", "Average"} THEN 3
    ELSE IF answer \in {"Dissatisfied", "Poor"} THEN 2
    ELSE IF answer \in {"Very Dissatisfied", "Very Poor"} THEN 1
    ELSE 3

\* per question, the given answers in batch order: the targets encoded, the
\* features as answered
Series(given, categories) ==
    LET of(entries) ==
            [q \in {entries[k].q_id : k \in DOMAIN entries} |->
                LET answers == SelectSeq(entries, LAMBDA e : e.q_id = q)
                IN  [k \in DOMAIN answers |-> answers[k].answer]]
    IN  of(SelectSeq(given, LAMBDA e : e.category \in categories))

_prepare_data_for_modeling(batch) ==
    LET of(given) ==
            [features |-> Series(given, {"demographic", "behavioral", "preference"}),
             targets |->
                LET answered == Series(given, {"satisfaction", "rating"})
                IN  [q \in DOMAIN answered |->
                        [k \in DOMAIN answered[q] |->
                            _encode_categorical_target(answered[q][k])]]]
    IN  of(SelectSeq(AllEntries(batch), Truthy))

MinTargetClasses == 2

MinTargetValues == 10

_identify_target_variables(processed_data) ==
    {target_id \in DOMAIN processed_data.targets :
        /\ Cardinality(Range(processed_data.targets[target_id])) >= MinTargetClasses
        /\ Len(processed_data.targets[target_id]) >= MinTargetValues}

PredictiveKeys ==
    {"classification_models", "feature_importance", "predictions", "metrics",
     "insights", "recommendations"}

PredictiveOutcome(batch) ==
    LET of(processed_data) ==
            IF DOMAIN processed_data.features = {} \/ DOMAIN processed_data.targets = {}
            THEN Returned({"error", "metrics"})
            ELSE [Returned(PredictiveKeys) EXCEPT
                     !.models = _identify_target_variables(processed_data)]
    IN  of(_prepare_data_for_modeling(batch))

(***************************************************************************)
(* One action per entry point, each on a batch of its own                  *)
(***************************************************************************)
\* two age groups of min_sample_size responses each, the least that
\* _validate_test_scenario accepts as a natural segmentation
SegmentedBatch ==
    [i \in 1..(2 * min_sample_size) |->
        Response("S" \o CharAt(LowerLetters, ((i - 1) \div 26) + 1)
                     \o CharAt(LowerLetters, ((i - 1) % 26) + 1),
                 "2024-03-05T08:00:00",
                 <<Age(Value(IF i <= min_sample_size THEN "36-45" ELSE "46-55")),
                   Satisfaction(Value(IF i % 3 = 0 THEN "Satisfied" ELSE "Neutral"))>>)]

\* texts for the sentiment scores: on each threshold, beside it, negated,
\* intensified, and without a single word
Texts ==
    {"good a b c d e f g h i",
     "bad a b c d e f g h i",
     "good a b c d e f g h",
     "not good at all",
     "bad but absolutely great then ok",
     "pretty good a b c d e f g h i",
     "very bad a b c d e f g h i j k l m",
     "!!!"}

\* one response with one text each
TextBatches ==
    {<<Response("T1", "2024-03-05T09:00:00", <<Feedback(Value(text))>>)>> : text \in Texts}

EngineBatches == Batches \cup {SegmentedBatch} \cup TextBatches

perform_eda ==
    \E batch \in EngineBatches :
        /\ engine' = "perform_eda"
        /\ data' = batch
        /\ result' = EdaOutcome(batch)
        /\ daily' = NoBuckets
        /\ sentiment_results' = <<>>
        /\ UNCHANGED <<now, cleaner_vars, call>>

\* the call is made on some day; the analyzer does not look at the clock
analyze_sentiment ==
    \E batch \in EngineBatches, today \in Clock :
      \E rounding \in Roundings(batch) :
        /\ engine' = "analyze_sentiment"
        /\ data' = batch
        /\ result' = SentimentOutcome(batch)
        /\ daily' = SentimentDaily(batch)
        /\ sentiment_results' = SentimentResults(batch, rounding)
        /\ now' = today
        /\ UNCHANGED <<cleaner_vars, call>>

analyze_trends ==
    \E batch \in EngineBatches, today \in Clock :
        /\ engine' = "analyze_trends"
        /\ data' = batch
        /\ result' = TrendOutcome(batch)
        /\ daily' = _extract_temporal_data(batch, today).daily
        /\ sentiment_results' = <<>>
        /\ now' = today
        /\ UNCHANGED <<cleaner_vars, call>>

run_ab_test ==
    \E batch \in EngineBatches :
        /\ engine' = "run_ab_test"
        /\ data' = batch
        /\ result' = AbOutcome(batch)
        /\ daily' = NoBuckets
        /\ sentiment_results' = <<>>
        /\ UNCHANGED <<now, cleaner_vars, call>>

analyze ==
    \E batch \in EngineBatches :
        /\ engine' = "analyze"
        /\ data' = batch
        /\ result' = PredictiveOutcome(batch)
        /\ daily' = NoBuckets
        /\ sentiment_results' = <<>>
        /\ UNCHANGED <<now, cleaner_vars, call>>

EngineNext ==
    \/ perform_eda
    \/ analyze_sentiment
    \/ analyze_trends
    \/ run_ab_test
    \/ analyze

EngineSpec == Init /\ [][EngineNext]_vars

(***************************************************************************)
(* Functions of the engines called on their own.  Floats are kept as exact *)
(* fractions num/den with den > 0; feature values are counted in tenths    *)
(* and weights in hundredths.                                              *)
(***************************************************************************)
Whole(n) == [num |-> n, den |-> 1]

Less(a, b) == a.num * b.den < b.num * a.den

\* min(a, b) and max(a, b) of Python: the first argument unless the second
\* is strictly smaller, strictly larger
py_min(a, b) == IF Less(b, a) THEN b ELSE a

py_max(a, b) == IF Less(a, b) THEN b ELSE a

Abs(n) == IF n < 0 THEN 0 - n ELSE n

\* the sum of the values of a dict
RECURSIVE SetSum(_)
SetSum(f) ==
    IF DOMAIN f = {} THEN 0
    ELSE LET x == CHOOSE x \in DOMAIN f : TRUE
         IN  f[x] + SetSum([y \in DOMAIN f \ {x} |-> f[y]])

\* the prediction as computed, with no limits applied
Unclamped(predicted) == predicted

\* max(1, min(5, predicted))
Clamp(predicted) == py_max(Whole(1), py_min(Whole(5), predicted))

\* the rules whose feature has a value at the index
Contributing(features, index, prediction_rules) ==
    {feature_id \in DOMAIN prediction_rules :
        feature_id \in DOMAIN features /\ index < Len(features[feature_id])}

_make_simple_prediction(features, index, prediction_rules) ==
    LET of(used) ==
            LET weighted_sum ==
                    SetSum([feature_id \in used |->
                               features[feature_id][index + 1] * Abs(prediction_rules[feature_id])])
                total_weight ==
                    SetSum([feature_id \in used |-> Abs(prediction_rules[feature_id])])
            IN  IF total_weight = 0 THEN Whole(3)
                ELSE Clamp([num |-> weighted_sum, den |-> 10 * total_weight])
    IN  of(Contributing(features, index, prediction_rules))

\* every feature of the scenario has the weight 1.0
_predict_scenario(scenario_features) ==
    LET weighted_sum == SetSum(scenario_features)
        total_weight == Cardinality(DOMAIN scenario_features)
    IN  IF total_weight = 0 THEN Whole(3)
        ELSE Clamp([num |-> weighted_sum, den |-> 10 * total_weight])

\* the features a model can be given
FeatureIds == {1, 2}

\* feature values in tenths: inside the satisfaction scale, on its ends,
\* and far outside it on both sides
FeatureValues == {-20, 0, 10, 30, 50, 1000}

\* rule weights in hundredths
Weights == {-100, 0, 11, 50}

\* values per feature
MaxValues == 1

Dicts(keys, values) == UNION {[ks -> values] : ks \in SUBSET keys}

FeatureDicts == Dicts(FeatureIds, SeqsUpTo(FeatureValues, MaxValues))

RuleDicts == Dicts(FeatureIds, Weights)

ScenarioDicts == Dicts(FeatureIds, FeatureValues)

\* a call about to be made
Pending(fn, args) == [fn |-> fn, args |-> args, done |-> FALSE, ret |-> <<>>]

\* the calls of _make_simple_prediction and of _predict_scenario
PredictionCalls ==
    {Pending("_make_simple_prediction",
             [features |-> features, index |-> index, prediction_rules |-> prediction_rules]) :
        features \in FeatureDicts, index \in 0..MaxValues, prediction_rules \in RuleDicts}
    \cup
    {Pending("_predict_scenario", [scenario_features |-> scenario_features]) :
        scenario_features \in ScenarioDicts}

(***************************************************************************)
(* ABTester._calculate_significance_simple.  Means and standard deviations *)
(* are counted in tenths.  The standard error is a square root, so the     *)
(* t-statistic is kept by its square, an exact fraction: t is not negative *)
(* and is compared with a critical value by comparing the squares.         *)
(***************************************************************************)
\* (n_a - 1) * std_a**2 + (n_b - 1) * std_b**2, in hundredths
PooledSquares(n_a, n_b, std_a, std_b) ==
    (n_a - 1) * std_a * std_a + (n_b - 1) * std_b * std_b

\* the square of standard_error / abs(mean_a - mean_b)
TSquaredInverted(gap, n_a, n_b, std_a, std_b) ==
    [num |-> PooledSquares(n_a, n_b, std_a, std_b) * (n_a + n_b),
     den |-> gap * gap * (n_a + n_b - 2) * n_a * n_b]

\* the square of abs(mean_a - mean_b) / standard_error, where
\* standard_error**2 = pooled_variance * (1/n_a + 1/n_b)
TSquared(gap, n_a, n_b, std_a, std_b) ==
    [num |-> gap * gap * (n_a + n_b - 2) * n_a * n_b,
     den |-> PooledSquares(n_a, n_b, std_a, std_b) * (n_a + n_b)]

\* t_stat > critical_t, where critical_t is 2.0 or 2.5: 4 * t**2 > 16 or 25
ExceedsCritical(t_squared, degrees_of_freedom) ==
    4 * t_squared.num > (IF degrees_of_freedom > 30 THEN 16 ELSE 25) * t_squared.den

\* a division by zero raises ZeroDivisionError; without a standard error
\* the result has no t_statistic
_calculate_significance_simple(mean_a, mean_b, n_a, n_b, std_a, std_b) ==
    IF n_a + n_b - 2 = 0 \/ n_a = 0 \/ n_b = 0
    THEN [raised |-> TRUE, is_significant |-> FALSE, reported |-> FALSE,
          t_squared |-> Whole(0), degrees_of_freedom |-> 0]
    ELSE IF PooledSquares(n_a, n_b, std_a, std_b) = 0
    THEN [raised |-> FALSE, is_significant |-> FALSE, reported |-> FALSE,
          t_squared |-> Whole(0), degrees_of_freedom |-> 0]
    ELSE LET of(t_squared, degrees_of_freedom) ==
                 [raised |-> FALSE,
                  is_significant |-> ExceedsCritical(t_squared, degrees_of_freedom),
                  reported |-> TRUE,
                  t_squared |-> t_squared,
                  degrees_of_freedom |-> degrees_of_freedom]
         IN  of(TSquared(Abs(mean_a - mean_b), n_a, n_b, std_a, std_b), n_a + n_b - 2)

\* group means on the satisfaction scale, in tenths
Means == {10, 25, 30, 50}

\* standard deviations, in tenths
Deviations == {0, 5, 20}

\* group sizes: a single response, sizes on both sides of the 30 degrees of
\* freedom, and the least size of a group of a test
SampleSizes == {1, 16, 17, 30}

SignificanceCalls ==
    {Pending("_calculate_significance_simple",
             [mean_a |-> mean_a, mean_b |-> mean_b, n_a |-> n_a, n_b |-> n_b,
              std_a |-> std_a, std_b |-> std_b]) :
        mean_a \in Means, mean_b \in Means, n_a \in SampleSizes, n_b \in SampleSizes,
        std_a \in Deviations, std_b \in Deviations}

(***************************************************************************)
(* The stages of the cleaner called on their own list                      *)
(***************************************************************************)
\* the frame of a stage that is passed the list data
Passed(batch, stats) ==
    [raw |-> batch, refs |-> [i \in 1..Len(batch) |-> i], stats |-> stats]

\* answers as respondents write them: letter case, blanks, words around
Variations ==
    {"very dissatisfied", "Very  Dissatisfied", " TERRIBLE ", "Awful\t", "awful service",
     "very  satisfied", "Excellent", "not good", "Satisfied", "okay then yes", "Y",
     "nothing", " plain ", "I am 30", "poor", "It works  well", ""}

VariedAnswers == {Value(v) : v \in Variations} \cup {NoValue}

\* one response with two answers, passed to _standardize_responses
StandardizeCalls ==
    {Pending("_standardize_responses",
             [data |-> <<Response("V1", "2024-03-08T10:00:00",
                                  <<Satisfaction(a), Feedback(b)>>)>>]) :
        a \in VariedAnswers, b \in VariedAnswers}

Gender(v) == Entry(5, "What is your gender?", "MCQ", "demographic", v)

\* responses to two demographic questions, each answered or left out
TwoQuestionResponses ==
    {Response("G1", "2024-03-09T10:00:00", <<Age(a), Gender(g)>>) :
        a \in {Value("40"), Value("50"), NoValue},
        g \in {Value("Female"), Value("Male"), NoValue, Value("")}}

\* responses per list passed to _handle_missing_values
MaxImputed == 3

ImputeCalls ==
    {Pending("_handle_missing_values", [data |-> batch]) :
        batch \in SeqsUpTo(TwoQuestionResponses, MaxImputed) \ {<<>>}}

\* responses to lead a list: one without the age question, one without the
\* satisfaction question
Leads ==
    {<<>>,
     <<Response("H1", "2024-03-05T07:00:00", <<Satisfaction(Value("Satisfied"))>>)>>,
     <<Response("H2", "2024-03-05T07:30:00", <<Age(Value("36-45"))>>)>>}

\* two age groups of m and n responses; the last `unanswered` responses of
\* the second group leave the satisfaction question out
Segments(m, n, unanswered) ==
    [i \in 1..(m + n) |->
        Response("S" \o CharAt(LowerLetters, ((i - 1) \div 26) + 1)
                     \o CharAt(LowerLetters, ((i - 1) % 26) + 1),
                 "2024-03-05T08:00:00",
                 <<Age(Value(IF i <= m THEN "36-45" ELSE "46-55")),
                   Satisfaction(IF i > m + n - unanswered THEN NoValue
                                ELSE IF i % 3 = 0 THEN Value("Satisfied")
                                ELSE Value("Neutral"))>>)]

\* group sizes on both sides of min_sample_size
ScenarioCalls ==
    {Pending("_identify_test_scenarios", [data |-> lead \o Segments(m, n, unanswered)]) :
        lead \in Leads,
        m \in {min_sample_size - 1, min_sample_size},
        n \in {min_sample_size, min_sample_size + 1},
        unanswered \in {0, 1, 2}}

(***************************************************************************)
(* TrendAnalyzer._identify_trend_periods.  Daily means are counted in      *)
(* tenths; only their order matters to the loop.                           *)
(***************************************************************************)
\* the trend between values[i-1] and values[i], indexes as in the code
StepTrend(values, i) ==
    IF values[i + 1] > values[i] THEN "improvement"
    ELSE IF values[i + 1] < values[i] THEN "decline"
    ELSE "stable"

\* the period from period_start to the index last, both as in the code
Period(days, values, current_trend, period_start, last) ==
    [type |-> current_trend,
     start_date |-> days[period_start + 1],
     end_date |-> days[last + 1],
     duration_days |-> last + 1 - period_start,
     value_change |-> values[last + 1] - values[period_start + 1]]

\* the loop from index i on; current_trend "" stands for None
RECURSIVE PeriodsFrom(_, _, _, _, _, _)
PeriodsFrom(days, values, i, current_trend, period_start, periods) ==
    IF i >= Len(values)
    THEN IF current_trend # "" /\ Len(values) - period_start >= 2
         THEN Append(periods,
                     Period(days, values, current_trend, period_start, Len(values) - 1))
         ELSE periods
    ELSE LET trend == StepTrend(values, i)
         IN  IF current_trend = ""
             THEN PeriodsFrom(days, values, i + 1, trend, i - 1, periods)
             ELSE IF current_trend # trend
             THEN PeriodsFrom(days, values, i + 1, trend, i - 1,
                      IF i - period_start >= 2
                      THEN Append(periods,
                                  Period(days, values, current_trend, period_start, i - 1))
                      ELSE periods)
             ELSE PeriodsFrom(days, values, i + 1, current_trend, period_start, periods)

_identify_trend_periods(days, values) ==
    IF Len(values) < 3 THEN <<>>
    ELSE PeriodsFrom(days, values, 1, "", 0, <<>>)

\* days per series
MaxDays == 5

\* day keys in their sorted order
SortedDays == [k \in 1..MaxDays |-> "2024-03-" \o Pad2(k)]

\* daily means of satisfaction, in tenths
DailyMeans == {20, 35, 40}

PeriodCalls ==
    {Pending("_identify_trend_periods",
             [days |-> SubSeq(SortedDays, 1, Len(values)), values |-> values]) :
        values \in SeqsUpTo(DailyMeans, MaxDays)}

(***************************************************************************)
(* PredictiveAnalyzer._build_prediction_model.  Each value of a series is  *)
(* kept with the place, in the batch, of the response it was read from.    *)
(* A correlation is compared with 0.1 by its square, an exact fraction.    *)
(***************************************************************************)
\* the mappings of _encode_feature for MCQ answers; the answers of the calls
\* below are all in them
_encode_feature(answer) ==
    CASE answer \in {"18-25", "<$25k", "Never", "High School"} -> 1
      [] answer \in {"26-35", "$25k-$50k", "Rarely", "Bachelor's", "Other"} -> 2
      [] answer \in {"36-45", "$50k-$75k", "Monthly", "Master's"} -> 3
      [] answer \in {"46-55", "$75k-$100k", "Weekly", "PhD"} -> 4
      [] answer \in {"56-65", ">$100k", "Daily"} -> 5
      [] answer = "65+" -> 6
      [] Lower(answer) = "male" -> 1
      [] Lower(answer) = "female" -> 0

\* the responses, by their place in the batch, whose answers make up the
\* series of a question: one value is appended per response that answers it
Answered(batch, q_id) ==
    SelectSeq([i \in DOMAIN batch |-> i], LAMBDA i : AnswerTo(batch[i], q_id) # "")

\* feature_values[:min_length] beside target_values[:min_length]
Aligned(batch, processed_data, feature_id, target_var, min_length) ==
    [j \in 1..min_length |->
        [feature |-> _encode_feature(processed_data.features[feature_id][j]),
         target |-> processed_data.targets[target_var][j],
         feature_from |-> Answered(batch, feature_id)[j],
         target_from |-> Answered(batch, target_var)[j]]]

\* numerator and squared denominator of _calculate_simple_correlation
CorrelationSquares(pairs) ==
    LET n == Len(pairs)
        sum_f == Sum([j \in DOMAIN pairs |-> pairs[j].feature])
        sum_t == Sum([j \in DOMAIN pairs |-> pairs[j].target])
        sum_ft == Sum([j \in DOMAIN pairs |-> pairs[j].feature * pairs[j].target])
        sum_f2 == Sum([j \in DOMAIN pairs |-> pairs[j].feature * pairs[j].feature])
        sum_t2 == Sum([j \in DOMAIN pairs |-> pairs[j].target * pairs[j].target])
    IN  [numerator |-> n * sum_ft - sum_f * sum_t,
         denominator2 |-> (n * sum_f2 - sum_f * sum_f) * (n * sum_t2 - sum_t * sum_t)]

\* abs(correlation) > 0.1
Significant(c) ==
    c.denominator2 # 0 /\ 100 * c.numerator * c.numerator > c.denominator2

\* the pairs the correlations are computed from, the features that get a
\* prediction rule, and the pairs _evaluate_model_accuracy predicts from:
\* features[feature_id][i] beside targets[i] for every i both lists have
_build_prediction_model(batch, processed_data, target_var) ==
    LET shorter(f) == Min(Len(processed_data.features[f]),
                          Len(processed_data.targets[target_var]))
        correlated == {f \in DOMAIN processed_data.features : shorter(f) >= 5}
        aligned == [f \in correlated |->
                       Aligned(batch, processed_data, f, target_var, shorter(f))]
        prediction_rules == {f \in correlated : Significant(CorrelationSquares(aligned[f]))}
    IN  [aligned |-> aligned,
         prediction_rules |-> prediction_rules,
         evaluated |-> [f \in prediction_rules |->
                           Aligned(batch, processed_data, f, target_var, shorter(f))]]

\* answers left out per question
MaxGaps == 2

\* enough responses for the target to have MinTargetValues values
ModelledSize == MinTargetValues + MaxGaps

\* the places, among the first of the batch, where a question is left out
Gaps == {g \in SUBSET (1..(2 * MaxGaps)) : Cardinality(g) <= MaxGaps}

\* older respondents are the more satisfied ones, the first apart
ModelledBatch(age_gaps, satisfaction_gaps) ==
    [i \in 1..ModelledSize |->
        Response("M" \o CharAt(LowerLetters, i), "2024-03-11T08:00:00",
                 <<Age(IF i \in age_gaps THEN NoValue
                       ELSE IF 2 * i <= ModelledSize THEN Value("36-45")
                       ELSE Value("46-55")),
                   Satisfaction(IF i \in satisfaction_gaps THEN NoValue
                                ELSE IF 2 * i > ModelledSize \/ i = 1 THEN Value("Satisfied")
                                ELSE Value("Neutral"))>>)]

ModelCalls ==
    {Pending("_build_prediction_model",
             [data |-> ModelledBatch(age_gaps, satisfaction_gaps), target_var |-> 2]) :
        age_gaps \in Gaps, satisfaction_gaps \in Gaps}

UnitCalls ==
    PredictionCalls \cup SignificanceCalls \cup StandardizeCalls \cup ImputeCalls
        \cup ScenarioCalls \cup PeriodCalls \cup ModelCalls

UnitInit == Constructed /\ call \in UnitCalls

call_make_simple_prediction ==
    /\ call.fn = "_make_simple_prediction"
    /\ ~call.done
    /\ call' = [call EXCEPT !.done = TRUE,
                            !.ret = _make_simple_prediction(call.args.features,
                                                            call.args.index,
                                                            call.args.prediction_rules)]
    /\ UNCHANGED <<cleaner_vars, engine_vars>>

call_predict_scenario ==
    /\ call.fn = "_predict_scenario"
    /\ ~call.done
    /\ call' = [call EXCEPT !.done = TRUE,
                            !.ret = _predict_scenario(call.args.scenario_features)]
    /\ UNCHANGED <<cleaner_vars, engine_vars>>

call_calculate_significance_simple ==
    /\ call.fn = "_calculate_significance_simple"
    /\ ~call.done
    /\ call' = [call EXCEPT !.done = TRUE,
                            !.ret = _calculate_significance_simple(
                                        call.args.mean_a, call.args.mean_b,
                                        call.args.n_a, call.args.n_b,
                                        call.args.std_a, call.args.std_b)]
    /\ UNCHANGED <<cleaner_vars, engine_vars>>

\* the list is standardized in place and returned; the counter is advanced
call_standardize_responses ==
    /\ call.fn = "_standardize_responses"
    /\ ~call.done
    /\ \E after \in {AfterStandardizeResponses(Passed(call.args.data, cleaning_stats))} :
          /\ call' = [call EXCEPT !.done = TRUE, !.ret = after.raw]
          /\ cleaning_stats' = after.stats
    /\ UNCHANGED <<pc, raw_data, cleaned_data, raw_input, calls, quality_score, engine_vars>>

\* the missing answers of the list are imputed in place; the counter is advanced
call_handle_missing_values ==
    /\ call.fn = "_handle_missing_values"
    /\ ~call.done
    /\ \E after \in {AfterHandleMissingValues(Passed(call.args.data, cleaning_stats))} :
          /\ call' = [call EXCEPT !.done = TRUE, !.ret = after.raw]
          /\ cleaning_stats' = after.stats
    /\ UNCHANGED <<pc, raw_data, cleaned_data, raw_input, calls, quality_score, engine_vars>>

call_identify_test_scenarios ==
    /\ call.fn = "_identify_test_scenarios"
    /\ ~call.done
    /\ call' = [call EXCEPT !.done = TRUE, !.ret = _identify_test_scenarios(call.args.data)]
    /\ UNCHANGED <<cleaner_vars, engine_vars>>

call_identify_trend_periods ==
    /\ call.fn = "_identify_trend_periods"
    /\ ~call.done
    /\ call' = [call EXCEPT !.done = TRUE,
                            !.ret = _identify_trend_periods(call.args.days, call.args.values)]
    /\ UNCHANGED <<cleaner_vars, engine_vars>>

\* analyze prepares the batch and builds the model of a target that qualifies
call_build_prediction_model ==
    /\ call.fn = "_build_prediction_model"
    /\ ~call.done
    /\ call.args.target_var
           \in _identify_target_variables(_prepare_data_for_modeling(call.args.data))
    /\ call' = [call EXCEPT !.done = TRUE,
                            !.ret = _build_prediction_model(
                                        call.args.data,
                                        _prepare_data_for_modeling(call.args.data),
                                        call.args.target_var)]
    /\ UNCHANGED <<cleaner_vars, engine_vars>>

UnitNext ==
    \/ call_make_simple_prediction
    \/ call_predict_scenario
    \/ call_calculate_significance_simple
    \/ call_standardize_responses
    \/ call_handle_missing_values
    \/ call_identify_test_scenarios
    \/ call_identify_trend_periods
    \/ call_build_prediction_model

UnitSpec == UnitInit /\ [][UnitNext]_vars

(***************************************************************************)
(* DataCleaner.get_cleaning_report: a reading of the counters; the         *)
(* retention rate is kept as the fraction <<numerator, denominator>>       *)
(***************************************************************************)
get_cleaning_report(stats) ==
    LET final_records ==
            stats.original_count - stats.removed_duplicates - stats.removed_outliers
    IN  [statistics |-> stats,
         summary |->
            [original_records |-> stats.original_count,
             final_records |-> final_records,
             data_retention_rate |-> <<100 * final_records, Max(stats.original_count, 1)>>,
             quality_improvements |->
                [missing_values_fixed |-> stats.fixed_missing_values,
                 responses_standardized |-> stats.standardized_responses,
                 groups_balanced |-> stats.balanced_groups]]]

(***************************************************************************)
(* Properties of the cleaner, checked under Spec                           *)
(***************************************************************************)
Returns == pc = "idle" /\ calls > 0

\* C1: Stage 3 is idempotent: right after Stage 3 has run, running it again
\* on its own output changes no answer, sets no standardized flag and leaves
\* the standardized_responses counter as it is.
C1_StandardizationIdempotent ==
    pc = "remove_outliers" =>
        LET again == AfterStandardizeResponses(Frame)
        IN  /\ again.raw = raw_data
            /\ again.stats.standardized_responses = cleaning_stats.standardized_responses

\* C2: no two records of the batch clean_and_balance returns have the same
\* answer fingerprint (answers in question order, trimmed and lower-cased).
C2_NoSharedFingerprint ==
    Returns =>
        \A a, b \in DOMAIN cleaned_data :
            a # b => Pattern(raw_data[cleaned_data[a]]) # Pattern(raw_data[cleaned_data[b]])

\* the frames a freshly constructed cleaner can end with on the batch
Fresh(batch) ==
    AfterBalanceData(
        AfterRemoveOutliers(
            AfterStandardizeResponses(
                AfterHandleMissingValues(
                    AfterRemoveDuplicates(Entered(batch, NoStats))))))

\* C3: after any sequence of calls on one cleaner every counter describes
\* only the most recent call: the counters are those a freshly constructed
\* cleaner reports for the same batch.
C3_CountersOfLastCall ==
    Returns => \E f \in Fresh(raw_input) : cleaning_stats = f.stats

\* C4: clean_and_balance leaves its input unchanged: after the call every
\* record of the list passed in has the answers and the imputed and
\* standardized flags it had before the call.
C4_InputUnchanged == Returns => raw_data = raw_input

\* C5 as amended: an answer carries imputed only if its value in the input
\* was None or the empty string, and imputation leaves every answer that
\* had a non-empty value in the input as it was.
C5_ImputedOnlyWhereMissing ==
    \A i \in DOMAIN raw_data : \A k \in DOMAIN raw_data[i].answers :
        LET before == raw_input[i].answers[k]
            after == raw_data[i].answers[k]
        IN  /\ after.imputed => IsMissing(before)
            /\ (pc = "standardize_responses" /\ ~IsMissing(before)) => after = before

\* a call has returned a record with an imputed answer beside an answer that
\* was given in the input
C5_Witness ==
    /\ Returns
    /\ \E i \in Range(cleaned_data) : \E k \in DOMAIN raw_data[i].answers :
          /\ raw_data[i].answers[k].imputed
          /\ IsMissing(raw_input[i].answers[k])
    /\ \E i \in Range(cleaned_data) : \E k \in DOMAIN raw_data[i].answers :
          /\ ~IsMissing(raw_input[i].answers[k])
          /\ ~raw_data[i].answers[k].imputed

\* C5 as stated: an answer carries imputed only if its value in the input
\* was null; an answer with a non-null value in the input is never flagged.
C5_ImputedOnlyWhereNull ==
    \A i \in DOMAIN raw_data : \A k \in DOMAIN raw_data[i].answers :
        raw_data[i].answers[k].imputed => IsNone(raw_input[i].answers[k])

\* C6: after Stage 5 every demographic group (the records with the same age,
\* gender and income answers) has at most as many records as the target of
\* each (dimension, value) pair it belongs to.
C6_GroupsWithinTargets ==
    [][pc = "balance_data" =>
          LET targets == _calculate_target_sizes(
                             _analyze_demographics(Deref(raw_data, cleaned_data)))
          IN  \A i \in Range(cleaned_data) :
                  LET demo_info == DemoInfo(raw_data[i])
                      size == Cardinality({j \in Range(cleaned_data') :
                                              DemoInfo(raw_data[j]) = demo_info})
                  IN  \A t \in DOMAIN demo_info :
                          size <= targets[t][demo_info[t]]]_vars

(***************************************************************************)
(* Properties of the engines, checked under EngineSpec                     *)
(***************************************************************************)
\* C7: perform_eda never raises and returns the six result keys, also for
\* batches with non-empty MCQ answers.
C7_EdaNeverRaises ==
    engine = "perform_eda" => ~result.raised /\ result.keys = EdaKeys

\* C8: on an empty batch each of the five entry points returns, without
\* raising, a result with an error key.
C8_EmptyBatchGivesError ==
    (engine # "none" /\ data = <<>>) => ~result.raised /\ "error" \in result.keys

\* no record carries a demographic question
NoDemographic(batch) ==
    \A i \in DOMAIN batch : \A k \in DOMAIN batch[i].answers :
        batch[i].answers[k].category # "demographic"

IsOutcomeQuestion(e) ==
    e.category \in {"satisfaction", "rating"} /\ e.question_type = "MCQ"

\* the batch has records and each carries a satisfaction or rating MCQ question
CarriesOutcome(batch) ==
    /\ batch # <<>>
    /\ \A i \in DOMAIN batch : \E k \in DOMAIN batch[i].answers :
          IsOutcomeQuestion(batch[i].answers[k])

\* C9 as stated: run_ab_test on a batch with no demographic question but
\* with satisfaction or rating MCQ questions returns a result with an error
\* key.
C9_NoDemographicGivesError ==
    (engine = "run_ab_test" /\ NoDemographic(data) /\ CarriesOutcome(data)) =>
        "error" \in result.keys

\* C9 as amended: run_ab_test returns the error result exactly when the
\* first record carries no satisfaction or rating MCQ question (the empty
\* batch included); on a batch with no demographic question whose records
\* carry such questions it returns the seven result keys, without error, for
\* random split scenarios only.
C9_NoDemographicGivesRandomSplit ==
    engine = "run_ab_test" =>
        /\ ~result.raised
        /\ ("error" \in result.keys) <=>
              (data = <<>> \/ \A k \in DOMAIN data[1].answers :
                                 ~IsOutcomeQuestion(data[1].answers[k]))
        /\ (NoDemographic(data) /\ CarriesOutcome(data)) =>
              (/\ result.keys = AbKeys
               /\ result.scenarios # <<>>
               /\ \A n \in DOMAIN result.scenarios :
                     result.scenarios[n].test_type = "random_split")

\* run_ab_test has run on a batch without demographic questions whose
\* records carry a satisfaction question, and has tested a random split
C9_Witness ==
    /\ engine = "run_ab_test"
    /\ NoDemographic(data)
    /\ CarriesOutcome(data)
    /\ result.scenarios # <<>>

\* C10: analyze on a batch with feature and target answers in which no
\* target question qualifies for modeling returns a result with an error key.
C10_NoQualifyingTargetGivesError ==
    engine = "analyze" =>
        LET processed_data == _prepare_data_for_modeling(data)
        IN  (/\ DOMAIN processed_data.features # {}
             /\ DOMAIN processed_data.targets # {}
             /\ _identify_target_variables(processed_data) = {}) =>
                "error" \in result.keys

\* C11: clean_and_balance on an empty batch returns an empty batch, and
\* afterwards every cleaning counter is zero.
C11_EmptyBatchZeroCounters ==
    (Returns /\ raw_input = <<>>) =>
        /\ cleaned_data = <<>>
        /\ cleaning_stats = NoStats

\* an empty batch has been cleaned by a cleaner that cleaned another before
C11_Witness ==
    /\ Returns
    /\ raw_input = <<>>
    /\ calls = MaxCalls
    /\ cleaned_data = <<>>

(***************************************************************************)
(* Properties of the engines, checked under EngineSpec                     *)
(***************************************************************************)
\* some Descriptive answer of the batch is None
HasNullDescriptive(batch) ==
    \E k \in DOMAIN batch : CountRaises(batch[k])

\* C12: analyze_sentiment treats a None Descriptive answer as missing: on a
\* batch in which some Descriptive answers are None and others hold text, in
\* any order of the records, it returns the full result without raising.
C12_NullDescriptiveIsMissing ==
    (/\ engine = "analyze_sentiment"
     /\ HasNullDescriptive(data)
     /\ _extract_text_responses(data) # <<>>) =>
        /\ ~result.raised
        /\ result.keys = SentimentKeys

\* the None answer comes after the last text, and the call returns
C12_Witness ==
    /\ engine = "analyze_sentiment"
    /\ HasNullDescriptive(data)
    /\ _extract_text_responses(data) # <<>>
    /\ ~result.raised

\* the timestamp is there and fromisoformat rejects it
Unparsable(timestamp) == timestamp # "" /\ ParsedTimestamp(timestamp).raised

\* the responses of the batch with an unparsable timestamp
UnparsableResponses(batch) == {k \in DOMAIN batch : Unparsable(batch[k].timestamp)}

\* the texts of the batch that belong to such responses
UnparsableTexts(batch) ==
    LET of(texts, undated) == {i \in DOMAIN texts : texts[i].ref \in undated}
    IN  of(_extract_text_responses(batch), UnparsableResponses(batch))

\* the buckets hold at least n entries under today's date
CountedToday(n) == n > 0 => (now \in DOMAIN daily /\ daily[now] >= n)

\* C13: a record with an unparsable timestamp is never left out of the time
\* buckets: the Trend Engine files the record, and the sentiment trends file
\* each of its scored texts, under the current date.
C13_UnparsableCountedToday ==
    /\ engine = "analyze_trends" =>
           CountedToday(Cardinality(UnparsableResponses(data)))
    /\ (engine = "analyze_sentiment" /\ ~result.raised) =>
           CountedToday(Cardinality(UnparsableTexts(data)))

\* the Trend Engine has filed a record with an unparsable timestamp
C13_Witness ==
    /\ engine = "analyze_trends"
    /\ UnparsableResponses(data) # {}
    /\ now \in DOMAIN daily
    /\ daily[now] >= Cardinality(UnparsableResponses(data))

\* C14: for every scored response the label is positive exactly when the
\* normalized score is above 0.1, negative exactly when it is below -0.1,
\* and neutral otherwise; a score of exactly 0.1 or -0.1 is labelled neutral.
C14_LabelByThreshold ==
    engine = "analyze_sentiment" =>
        \A i \in DOMAIN sentiment_results :
            LET of(score, label) ==
                    LET over == \/ 10 * score.num > score.den
                                \/ 10 * score.num = score.den /\ score.err > 0
                        under == \/ 10 * score.num < 0 - score.den
                                 \/ 10 * score.num = 0 - score.den /\ score.err < 0
                    IN  /\ label = "positive" <=> over
                        /\ label = "negative" <=> under
                        /\ label = "neutral" <=> (~over /\ ~under)
            IN  of(sentiment_results[i].score, sentiment_results[i].label)

\* a response whose score is exactly 0.1 has been scored and labelled neutral
C14_Witness ==
    /\ engine = "analyze_sentiment"
    /\ \E i \in DOMAIN sentiment_results :
          /\ 10 * sentiment_results[i].score.num = sentiment_results[i].score.den
          /\ sentiment_results[i].score.err = 0
          /\ sentiment_results[i].label = "neutral"

(***************************************************************************)
(* Properties of the functions, checked under UnitSpec                     *)
(***************************************************************************)
\* C15: every prediction of the Predictive Engine, the per-row prediction
\* used for accuracy and the scenario prediction alike, lies in [1, 5] for
\* all feature values and weights, also when no feature contributes.
C15_PredictionWithinScale ==
    (call.fn \in {"_make_simple_prediction", "_predict_scenario"} /\ call.done) =>
        /\ call.ret.den > 0
        /\ call.ret.num >= call.ret.den
        /\ call.ret.num <= 5 * call.ret.den

\* a row whose only contributing feature is far above the scale is
\* predicted as 5
C15_Witness ==
    /\ call.fn = "_make_simple_prediction"
    /\ call.done
    /\ \E feature_id \in Contributing(call.args.features, call.args.index,
                                      call.args.prediction_rules) :
          /\ call.args.features[feature_id][call.args.index + 1] > 50
          /\ call.args.prediction_rules[feature_id] # 0
    /\ call.ret = Whole(5)

\* the result of the same comparison with other means
WithMeans(args, mean_a, mean_b) ==
    _calculate_significance_simple(mean_a, mean_b, args.n_a, args.n_b,
                                   args.std_a, args.std_b)

\* C16: in the two-group comparison, for fixed n_a, n_b, std_a and std_b,
\* increasing |mean_a - mean_b| never decreases the reported t-statistic.
C16_TStatisticMonotone ==
    (call.fn = "_calculate_significance_simple" /\ call.done /\ call.ret.reported) =>
        \A mean_a \in Means, mean_b \in Means :
            Abs(mean_a - mean_b) >= Abs(call.args.mean_a - call.args.mean_b) =>
                LET of(other) ==
                        /\ other.reported
                        /\ other.t_squared.den = call.ret.t_squared.den
                        /\ other.t_squared.num >= call.ret.t_squared.num
                IN  of(WithMeans(call.args, mean_a, mean_b))

\* a t-statistic above zero is reported, and the means can be further apart
C16_Witness ==
    /\ call.fn = "_calculate_significance_simple"
    /\ call.done
    /\ call.ret.reported
    /\ call.ret.t_squared.num > 0
    /\ \E mean_a \in Means, mean_b \in Means :
          Abs(mean_a - mean_b) > Abs(call.args.mean_a - call.args.mean_b)

\* C17: a two-group comparison is reported significant exactly when its
\* pooled-variance t-statistic exceeds 2.0 (more than 30 degrees of freedom)
\* or 2.5 (30 or fewer); two groups whose means differ are judged by this
\* threshold for every combination of standard deviations.  With t =
\* gap / standard_error, t > c is gap**2 > c**2 * standard_error**2.
C17_SignificantByThreshold ==
    (call.fn = "_calculate_significance_simple" /\ call.done /\ ~call.ret.raised) =>
        LET of(gap, n_a, n_b, squares) ==
                call.ret.is_significant <=>
                    (4 * gap * gap * (n_a + n_b - 2) * n_a * n_b >
                        (IF n_a + n_b - 2 > 30 THEN 16 ELSE 25) * squares * (n_a + n_b))
        IN  of(Abs(call.args.mean_a - call.args.mean_b), call.args.n_a, call.args.n_b,
               (call.args.n_a - 1) * call.args.std_a * call.args.std_a
                   + (call.args.n_b - 1) * call.args.std_b * call.args.std_b)

\* two groups with some spread whose means differ are reported significant
C17_Witness ==
    /\ call.fn = "_calculate_significance_simple"
    /\ call.done
    /\ call.args.std_a > 0
    /\ call.args.mean_a # call.args.mean_b
    /\ call.ret.reported
    /\ call.ret.is_significant

(***************************************************************************)
(* Properties of the stages of the cleaner, checked under Spec             *)
(***************************************************************************)
\* the rule of Stage 4 in words: the mean length of the non-empty
\* Descriptive answers is below 10 or above 500, or some answer of more than
\* 20 characters has fewer than 0.3 distinct characters per character, the
\* characters being those of Fold(answer)
OutlierRule(response, Fold(_)) ==
    LET lengths == [k \in DOMAIN response.answers |->
                       IF /\ response.answers[k].question_type = "Descriptive"
                          /\ ~IsNone(response.answers[k])
                          /\ response.answers[k].answer # ""
                       THEN Len(response.answers[k].answer) ELSE 0]
        counted == Cardinality({k \in DOMAIN lengths : lengths[k] > 0})
    IN  \/ counted > 0 /\ (Sum(lengths) < 10 * counted \/ Sum(lengths) > 500 * counted)
        \/ \E k \in DOMAIN response.answers :
              /\ ~IsNone(response.answers[k])
              /\ Len(response.answers[k].answer) > 20
              /\ 10 * Cardinality(CharsOf(Fold(response.answers[k].answer)))
                     < 3 * Len(response.answers[k].answer)

AsWritten(s) == s

\* Stage 4 drops exactly the records the rule names, keeps the others in
\* their order and counts the dropped ones
DropsBy(Fold(_)) ==
    pc = "remove_outliers" =>
        /\ cleaned_data' = SelectSeq(cleaned_data,
                                     LAMBDA i : ~OutlierRule(raw_data[i], Fold))
        /\ cleaning_stats'.removed_outliers =
               cleaning_stats.removed_outliers + (Len(cleaned_data) - Len(cleaned_data'))

\* C18 as stated: Stage 4 drops a record if and only if the mean length of
\* its non-empty Descriptive answers is < 10 or > 500, or some answer string
\* longer than 20 characters has unique_chars/len < 0.3; every other record
\* is kept, in input order, and removed_outliers grows by the number dropped.
C18_DropsByRuleAsWritten == [][DropsBy(AsWritten)]_vars

\* C18 as amended: the same, with the distinct characters of an answer
\* counted after lower-casing it.
C18_DropsByRuleLowerCased == [][DropsBy(Lower)]_vars

\* Stage 4 has dropped a record that only the lower-cased count names, and
\* (in another call) has kept a record
C18_Witness ==
    /\ pc = "balance_data"
    /\ cleaning_stats.removed_outliers > 0
    /\ \E i \in DOMAIN raw_data :
          /\ i \notin Range(cleaned_data)
          /\ OutlierRule(raw_data[i], Lower)
          /\ ~OutlierRule(raw_data[i], AsWritten)


\* no response of the batch carries an answered demographic question
NoDemographicAnswer(batch) ==
    \A i \in DOMAIN batch : \A k \in DOMAIN batch[i].answers :
        batch[i].answers[k].category = "demographic" => IsMissing(batch[i].answers[k])

\* C19: if no record of the batch has a demographic answer, Stage 5 drops
\* nothing: the batch it returns holds exactly the records it was given and
\* balanced_groups is not incremented.
C19_NoDemographicAnswerNoDrop ==
    [][(pc = "balance_data" /\ NoDemographicAnswer(Deref(raw_data, cleaned_data))) =>
          /\ Len(cleaned_data') = Len(cleaned_data)
          /\ Range(cleaned_data') = Range(cleaned_data)
          /\ cleaning_stats'.balanced_groups = cleaning_stats.balanced_groups]_vars

\* Stage 5 has run on the batch whose age question nobody answered, has
\* dropped a record and has counted a balanced group
C19_Witness ==
    /\ pc = "validate_data_quality"
    /\ raw_input = UnansweredBatch
    /\ NoDemographicAnswer(raw_data)
    /\ Len(cleaned_data) < Len(raw_input)
    /\ cleaning_stats.balanced_groups > 0


\* the response has no non-empty answer, so nothing goes into its pattern
NoFingerprintContent(response) ==
    \A k \in DOMAIN response.answers : ~Truthy(response.answers[k])

\* C20: Stage 1 never treats records without fingerprint content as
\* duplicates of each other: when the batch holds two or more records with no
\* non-empty answers, all of them survive deduplication and
\* removed_duplicates is incremented only for the other records it drops.
C20_BlankRecordsSurvive ==
    [][pc = "remove_duplicates" =>
          LET blank == {i \in Range(cleaned_data) : NoFingerprintContent(raw_data[i])}
              dropped == Range(cleaned_data) \ Range(cleaned_data')
          IN  Cardinality(blank) >= 2 =>
                  /\ blank \subseteq Range(cleaned_data')
                  /\ cleaning_stats'.removed_duplicates =
                         cleaning_stats.removed_duplicates
                             + Cardinality(dropped \ blank)]_vars

\* Stage 1 has run on the batch of two different records without non-empty
\* answers, has dropped the second and has counted it as a duplicate
C20_Witness ==
    /\ pc = "handle_missing_values"
    /\ raw_input = BlankBatch
    /\ \A i \in DOMAIN raw_data : NoFingerprintContent(raw_data[i])
    /\ cleaned_data = <<1>>
    /\ cleaning_stats.removed_duplicates > 0

(***************************************************************************)
(* Properties of the stages called on their own, checked under UnitSpec    *)
(***************************************************************************)
\* the answers _standardize_responses was passed and those it returned, paired
StandardizedPairs ==
    IF call.fn = "_standardize_responses" /\ call.done
    THEN {[before |-> call.args.data[i].answers[k], after |-> call.ret[i].answers[k]] :
             i \in DOMAIN call.args.data, k \in DOMAIN call.args.data[1].answers}
    ELSE {}

\* C21: Stage 3 maps each of the answers 'very dissatisfied', 'terrible' and
\* 'awful', in any letter case and with blanks around ignored, to the label
\* 'Very Dissatisfied'.
C21_VeryDissatisfiedLabel ==
    \A p \in StandardizedPairs :
        (/\ Truthy(p.before)
         /\ Lower(CollapseSpaces(Strip(p.before.answer)))
                \in {"very dissatisfied", "terrible", "awful"})
            => p.after.answer = "Very Dissatisfied"

\* Stage 3 has been passed the answer 'very dissatisfied' and has written
\* 'Dissatisfied', the replacement of the rule before the one it belongs to
C21_Witness ==
    \E p \in StandardizedPairs :
        /\ p.before.answer = "very dissatisfied"
        /\ p.after.answer = "Dissatisfied"
        /\ p.after.standardized

\* the rules, by their place in the table, that match the tidied answer
MatchingRules(tidied) ==
    {k \in DOMAIN standardizations :
        SearchLowered(standardizations[k].pattern, Lower(tidied))}

\* what the claim says Stage 3 leaves of one answer passed to it
ExpectedAnswer(before) ==
    LET of(tidied, hits) ==
            IF hits = {} THEN tidied
            ELSE standardizations[CHOOSE k \in hits : \A j \in hits : k <= j].replacement
        for(tidied) == of(tidied, MatchingRules(tidied))
    IN  for(CollapseSpaces(Strip(before.answer)))

\* C22: Stage 3 replaces the whole answer by the replacement of the first
\* rule, in table order, that matches the trimmed and collapsed answer
\* whatever the letter case; an answer matching no rule changes only by
\* trimming and collapsing; standardized is set, and standardized_responses
\* advanced, exactly for the answers whose stored value changed.
C22_FirstRuleReplacesWhole ==
    (call.fn = "_standardize_responses" /\ call.done) =>
        /\ \A p \in StandardizedPairs :
              /\ Truthy(p.before) => p.after.answer = ExpectedAnswer(p.before)
              /\ ~Truthy(p.before) => p.after = p.before
              /\ p.after.standardized <=> (Str(p.after) # Str(p.before))
              /\ p.after.isnull = p.before.isnull
        /\ cleaning_stats.standardized_responses =
              Cardinality({p \in StandardizedPairs : p.after.answer # p.before.answer})

\* Stage 3 has been passed an answer that two rules match and has written
\* the replacement of the earlier one, and has left the other answer and its
\* flag as they were
C22_Witness ==
    /\ cleaning_stats.standardized_responses = 1
    /\ \E p \in StandardizedPairs :
          /\ p.before.answer = "okay then yes"
          /\ p.after.answer = "Yes"
          /\ p.after.standardized
    /\ \E p \in StandardizedPairs :
          /\ p.before.answer = "Satisfied"
          /\ p.after = p.before

(***************************************************************************)
(* Properties of Stage 2, checked under Spec                               *)
(***************************************************************************)
\* C23: every missing (None or empty) Descriptive answer is imputed in
\* Stage 2 with the default string of its category and marked imputed,
\* whether or not another answer of that category and type is in the batch.
C23_MissingDescriptiveImputed ==
    [][pc = "handle_missing_values" =>
          \A i \in Range(cleaned_data) : \A k \in DOMAIN raw_data[i].answers :
              (/\ raw_data[i].answers[k].question_type = "Descriptive"
               /\ IsMissing(raw_data[i].answers[k]))
                  => /\ raw_data'[i].answers[k].answer =
                            default_responses(raw_data[i].answers[k].category)
                     /\ ~raw_data'[i].answers[k].isnull
                     /\ raw_data'[i].answers[k].imputed]_vars

\* Stage 2 has run on a batch whose only Descriptive answer is None and has
\* left it None and unmarked
C23_Witness ==
    /\ pc = "standardize_responses"
    /\ \E i \in Range(cleaned_data) : \E k \in DOMAIN raw_data[i].answers :
          /\ raw_input[i].answers[k].question_type = "Descriptive"
          /\ IsNone(raw_input[i].answers[k])
          /\ IsNone(raw_data[i].answers[k])
          /\ ~raw_data[i].answers[k].imputed

\* the given answers of the list with the category and type of the entry,
\* whatever the question, in the order the list holds them
Pooled(batch, entry) ==
    LET entries == Flatten([k \in DOMAIN batch |-> batch[k].answers])
        given == SelectSeq(entries, LAMBDA e :
                     /\ e.category = entry.category
                     /\ e.question_type = entry.question_type
                     /\ ~IsMissing(e))
    IN  [j \in DOMAIN given |-> Str(given[j])]

\* C24: a missing MCQ answer is replaced in Stage 2 by the most frequent
\* given answer among all answers of the batch with the same category and
\* question_type, pooled across every question, the first met among equals;
\* it stays as it is only if there is no such answer.
C24_MostFrequentPooled ==
    (call.fn = "_handle_missing_values" /\ call.done) =>
        \A i \in DOMAIN call.args.data : \A k \in DOMAIN call.args.data[i].answers :
            LET before == call.args.data[i].answers[k]
                after == call.ret[i].answers[k]
                of(pool) == IF pool = <<>> THEN after = before
                            ELSE after.answer = MostCommon(pool) /\ ~after.isnull
            IN  (before.question_type = "MCQ" /\ IsMissing(before))
                    => of(Pooled(call.args.data, before))

\* Stage 2 has been passed one age answer '40', two gender answers 'Female'
\* and a missing gender answer, and has written '40' for the missing one
C24_Witness ==
    /\ call.fn = "_handle_missing_values"
    /\ call.done
    /\ \E i \in DOMAIN call.args.data :
          /\ IsMissing(call.args.data[i].answers[2])
          /\ Pooled(call.args.data, call.args.data[i].answers[2]) = <<"40", "Female", "Female">>
          /\ call.ret[i].answers[2].answer = "40"
          /\ call.ret[i].answers[2].imputed

(***************************************************************************)
(* Properties of the A/B tester's scenario discovery, checked under        *)
(* UnitSpec                                                                *)
(***************************************************************************)
\* the question ids of the MCQ entries, in the categories, of any response
QuestionsOfAny(batch, categories) ==
    {e.q_id : e \in {x \in UNION {Range(batch[i].answers) : i \in DOMAIN batch} :
                        x.category \in categories /\ x.question_type = "MCQ"}}

\* at least two values of the segmentation question have min_sample_size
\* responses answering it and the outcome question
TwoFullGroups(batch, d, o) ==
    LET size(v) == Cardinality({i \in DOMAIN batch :
                       AnswerTo(batch[i], d) = v /\ AnswerTo(batch[i], o) # ""})
        values == {AnswerTo(batch[i], d) : i \in DOMAIN batch} \ {""}
    IN  Cardinality({v \in values : size(v) >= min_sample_size}) >= 2

\* C25: scenario discovery pairs every demographic MCQ question of any
\* record of the batch with every satisfaction or rating MCQ question of any
\* record, and keeps a pairing if and only if at least two demographic
\* value groups each have at least 30 responses answering both questions.
C25_PairsQuestionsOfAnyRecord ==
    (call.fn = "_identify_test_scenarios" /\ call.done) =>
        {<<call.ret[s].segmentation_var, call.ret[s].outcome_var>> :
            s \in {t \in DOMAIN call.ret : call.ret[t].test_type = "demographic_outcome"}}
        = {p \in QuestionsOfAny(call.args.data, {"demographic"})
                    \X QuestionsOfAny(call.args.data, {"satisfaction", "rating"}) :
              TwoFullGroups(call.args.data, p[1], p[2])}

\* discovery has been passed two age groups of 30 responses answering both
\* questions behind a first response without the age question, and has kept
\* no pairing of the two questions
C25_Witness ==
    /\ call.fn = "_identify_test_scenarios"
    /\ call.done
    /\ TwoFullGroups(call.args.data, 1, 2)
    /\ \A k \in DOMAIN call.args.data[1].answers :
          call.args.data[1].answers[k].category # "demographic"
    /\ \A s \in DOMAIN call.ret : call.ret[s].test_type = "random_split"

(***************************************************************************)
(* Properties of the trend periods, checked under UnitSpec                 *)
(***************************************************************************)
Sign(values, a) ==
    IF values[a + 1] > values[a] THEN "improvement"
    ELSE IF values[a + 1] < values[a] THEN "decline"
    ELSE "stable"

\* the points a..b are a maximal run: every step between them goes the same
\* way, and the steps before a and after b, where there are any, go another
MaximalRun(values, a, b) ==
    /\ a < b
    /\ \A c \in a..(b - 1) : Sign(values, c) = Sign(values, a)
    /\ a > 1 => Sign(values, a - 1) # Sign(values, a)
    /\ b < Len(values) => Sign(values, b) # Sign(values, a)

\* every maximal run of the series is among the periods
EveryRunReported(days, values, periods) ==
    \A a, b \in DOMAIN values :
        MaximalRun(values, a, b) =>
            \E p \in DOMAIN periods :
                /\ periods[p].type = Sign(values, a)
                /\ periods[p].start_date = days[a]
                /\ periods[p].end_date = days[b]

\* C26: for a day-ordered series of daily satisfaction means with at least
\* 2 points, _identify_trend_periods reports every maximal contiguous run of
\* strictly increasing, strictly decreasing or flat values that spans at
\* least 2 points, with the first and last day of the run.
C26_EveryRunReported ==
    (call.fn = "_identify_trend_periods" /\ call.done /\ Len(call.args.values) >= 2) =>
        EveryRunReported(call.args.days, call.args.values, call.ret)

\* the function has been passed a series of two days with a rising mean and
\* has reported no period
C26_Witness ==
    /\ call.fn = "_identify_trend_periods"
    /\ call.done
    /\ Len(call.args.values) = 2
    /\ call.args.values[1] < call.args.values[2]
    /\ call.ret = <<>>

(***************************************************************************)
(* Properties of the stages taken together, checked under Spec             *)
(***************************************************************************)
\* the strings of the imputation lookup table, its fallback included
DefaultStrings ==
    {default_responses(category) :
        category \in {"feedback", "experience", "motivation", "factors", "additional",
                      "general"}}

\* C27: a value written by Stage 2 imputation is stable through the later
\* stages: in the batch clean_and_balance returns, every Descriptive answer
\* with imputed set equals one of the default strings of the lookup table.
C27_ImputedTextStaysDefault ==
    Returns =>
        \A i \in Range(cleaned_data) : \A k \in DOMAIN raw_data[i].answers :
            (/\ raw_data[i].answers[k].question_type = "Descriptive"
             /\ raw_data[i].answers[k].imputed)
                => raw_data[i].answers[k].answer \in DefaultStrings

\* a call has returned a record whose imputed Descriptive answer Stage 3 has
\* rewritten to 'No'
C27_Witness ==
    /\ Returns
    /\ raw_input = RemarkBatch
    /\ cleaned_data = <<1>>
    /\ raw_data[1].answers[1].imputed
    /\ raw_data[1].answers[1].standardized
    /\ raw_data[1].answers[1].answer = "No"

\* C28: Stages 2 and 3 never cause a record to be rejected in Stage 4: a
\* record of the raw batch that meets neither outlier condition on its raw
\* answers is not removed as an outlier by clean_and_balance.
C28_RawInlierNotRejected ==
    [][pc = "remove_outliers" =>
          \A i \in Range(cleaned_data) :
              ~is_outlier(raw_input[i]) => i \in Range(cleaned_data')]_vars

\* Stage 4 has removed a record whose raw answers meet neither outlier
\* condition: its Descriptive answer was None, was imputed, and was rewritten
C28_Witness ==
    /\ pc = "balance_data"
    /\ \E i \in DOMAIN raw_input :
          /\ ~is_outlier(raw_input[i])
          /\ i \notin Range(cleaned_data)
          /\ is_outlier(raw_data[i])
          /\ \E k \in DOMAIN raw_data[i].answers :
                /\ raw_data[i].answers[k].question_type = "Descriptive"
                /\ raw_data[i].answers[k].imputed
                /\ raw_data[i].answers[k].standardized

\* C29: the cleaning report agrees with the cleaned batch: after
\* clean_and_balance(batch), final_records of the report's summary is the
\* number of records of the returned batch, for every batch, those from
\* which Stage 5 drops records included.
C29_ReportAgreesWithBatch ==
    Returns =>
        get_cleaning_report(cleaning_stats).summary.final_records = Len(cleaned_data)

\* a fresh cleaner has returned 20 of 21 records, Stage 5 having dropped one,
\* and its report counts 21 final records
C29_Witness ==
    /\ Returns
    /\ calls = 1
    /\ raw_input = LargeBatch("36-45")
    /\ Len(cleaned_data) = LargeSize - 1
    /\ cleaning_stats.balanced_groups = 1
    /\ get_cleaning_report(cleaning_stats).summary.final_records = LargeSize

(***************************************************************************)
(* Properties of the predictive engine's pairing, checked under UnitSpec   *)
(***************************************************************************)
\* every pair holds a feature value and a target value of one response
SameResponse(pairs) ==
    \A j \in DOMAIN pairs : pairs[j].feature_from = pairs[j].target_from

\* C30: the feature value and the target value paired at the same index, for
\* correlation in _build_prediction_model and for accuracy in
\* _evaluate_model_accuracy, always come from the same response, also when
\* some records have no answer to the feature or to the target question.
C30_PairedFromSameResponse ==
    (call.fn = "_build_prediction_model" /\ call.done) =>
        /\ \A f \in DOMAIN call.ret.aligned : SameResponse(call.ret.aligned[f])
        /\ \A f \in DOMAIN call.ret.evaluated : SameResponse(call.ret.evaluated[f])

\* a model has been built from a batch whose second response leaves the age
\* question out: from the second pair on, the age of one response stands
\* beside the satisfaction of the response before it, in the correlation and
\* in the evaluation
C30_Witness ==
    /\ call.fn = "_build_prediction_model"
    /\ call.done
    /\ call.args.data = ModelledBatch({2}, {})
    /\ call.ret.aligned[1][2].feature_from = 3
    /\ call.ret.aligned[1][2].target_from = 2
    /\ 1 \in call.ret.prediction_rules
    /\ ~SameResponse(call.ret.evaluated[1])

====
